---- MODULE Spec2Model ----
(***************************************************************************)
(* Nixery: the on-demand image assembly pipeline (registry frontend,       *)
(* image orchestrator, build cache, storage backends).                     *)
(*                                                                         *)
(* Byte strings (JSON documents, tarballs, digests, storage keys) are TLA+ *)
(* strings.  SHA-1 and SHA-256 are modelled as injective taggings of their *)
(* input, so equal digests mean equal contents.                            *)
(***************************************************************************)
EXTENDS Integers, Sequences, FiniteSets, TLC

(***************************************************************************)
(* Bounds of the model.                                                    *)
(***************************************************************************)
\* number of HTTP requests handled (concurrently or one after the other)
NumRequests == 2

\* number of calls to the outside (resolver, storage backend, local disk)
\* that fail in one run
MaxFaults == 1

\* number of goroutines that are started and have not run yet
MaxPending == 1

Reqs == 1..NumRequests

(***************************************************************************)
(* Strings.                                                                *)
(***************************************************************************)
\* the characters of image names, in byte order (the order of sort.Strings)
Alphabet == "-./0123456789ABCDEFGHIJKLMNOPQRSTUVWXYZ_abcdefghijklmnopqrstuvwxyz"

CharAt(s, i) == SubSeq(s, i, i)

CharRank(c) == CHOOSE i \in 1..Len(Alphabet) : CharAt(Alphabet, i) = c

\* a < b in Go's string order: bytewise, a proper prefix sorts first
RECURSIVE StrLessFrom(_, _, _)
StrLessFrom(a, b, i) ==
  IF i > Len(a) THEN i <= Len(b)
  ELSE IF i > Len(b) THEN FALSE
  ELSE IF CharAt(a, i) = CharAt(b, i) THEN StrLessFrom(a, b, i + 1)
  ELSE CharRank(CharAt(a, i)) < CharRank(CharAt(b, i))

StrLess(a, b) == StrLessFrom(a, b, 1)

\* sort.Strings: insertion of each element into a sorted sequence
RECURSIVE InsertSorted(_, _)
InsertSorted(x, s) ==
  IF s = <<>> THEN <<x>>
  ELSE IF StrLess(x, Head(s)) THEN <<x>> \o s
  ELSE <<Head(s)>> \o InsertSorted(x, Tail(s))

RECURSIVE SortStrings(_)
SortStrings(s) ==
  IF s = <<>> THEN <<>> ELSE InsertSorted(Head(s), SortStrings(Tail(s)))

\* strings.Join
RECURSIVE Join(_, _)
Join(s, sep) ==
  IF s = <<>> THEN ""
  ELSE IF Len(s) = 1 THEN s[1]
  ELSE s[1] \o sep \o Join(Tail(s), sep)

\* strings.Split(name, "/")
RECURSIVE SplitFrom(_, _, _)
SplitFrom(s, start, i) ==
  IF i > Len(s) THEN <<SubSeq(s, start, Len(s))>>
  ELSE IF CharAt(s, i) = "/"
       THEN <<SubSeq(s, start, i - 1)>> \o SplitFrom(s, i + 1, i + 1)
       ELSE SplitFrom(s, start, i + 1)

Split(s) == SplitFrom(s, 1, 1)

HasPrefix(s, p) == Len(s) >= Len(p) /\ SubSeq(s, 1, Len(p)) = p

(***************************************************************************)
(* Configuration: the storage backend and the package source.              *)
(***************************************************************************)
Backends == {"filesystem", "gcs", "s3"}

\* a full commit hash, the only cacheable git reference or channel
Commit == "0123456789abcdef0123456789abcdef01234567"

GitSource == [type |-> "git", arg |-> "https://example.org/nixpkgs.git"]

PkgSources ==
  { GitSource,
    [type |-> "channel", arg |-> "nixos-unstable"],
    [type |-> "channel", arg |-> Commit],
    [type |-> "path",    arg |-> "/var/nixpkgs"] }

\* the configurations explored: every backend with the git source, every
\* package source with the filesystem backend
Configs ==
  {c \in [backend : Backends, pkgs : PkgSources] :
     c.backend = "filesystem" \/ c.pkgs = GitSource}

\* the image names and tags requested by clients
Names == {"hello", "arm64/hello", "nope"}

Tags == {"latest", Commit}

\* the requests clients make: a name and a tag
Requests ==
  {<<"hello", "latest">>, <<"hello", Commit>>,
   <<"arm64/hello", Commit>>, <<"nope", Commit>>}

\* the top-level attributes of the configured package set; like any
\* other segment of an image name, arm64 is looked up in it
Nixpkgs == {"hello", "cacert", "iana-etc", "arm64",
            "bashInteractive", "coreutils", "moreutils", "nano"}

HexDigits == "0123456789abcdef"

\* commitRegex: ^[0-9a-f]{40}$
commitRegex(s) ==
  /\ Len(s) = 40
  /\ \A i \in 1..Len(s) : \E j \in 1..Len(HexDigits) : CharAt(s, i) = CharAt(HexDigits, j)

Sha1(s) == "h<" \o s \o ">"

Sha256(s) == "H<" \o s \o ">"

\* a fingerprint for every tag of a git source and every channel
CacheKeyUnpinned(src, pkgs, tag) ==
  CASE src.type = "git" -> Sha1(Join(pkgs, "") \o tag)
    [] src.type = "channel" -> Sha1(Join(pkgs, "") \o src.arg)
    [] OTHER -> ""

\* GitSource.CacheKey, NixChannel.CacheKey, PkgsPath.CacheKey
CacheKey(src, pkgs, tag) ==
  CASE src.type = "git" ->
         IF ~commitRegex(tag) THEN "" ELSE Sha1(Join(pkgs, "") \o tag)
    [] src.type = "channel" ->
         IF ~commitRegex(src.arg) THEN "" ELSE Sha1(Join(pkgs, "") \o src.arg)
    [] OTHER -> ""

(***************************************************************************)
(* Image requests.                                                         *)
(***************************************************************************)
amd64 == [nixSystem |-> "x86_64-linux", imageArch |-> "amd64"]

arm == [nixSystem |-> "aarch64-linux", imageArch |-> "arm64"]

\* convenienceNames: shell, as the first segment, stands for a set of tools
convenienceNames(packages) ==
  IF packages[1] = "shell"
  THEN Tail(packages) \o <<"bashInteractive", "coreutils", "moreutils", "nano">>
  ELSE packages

ImageFromName(name, tag) ==
  LET pkgs == Split(name)
      expanded == convenienceNames(pkgs) \o <<"cacert", "iana-etc">>
  IN  [Name |-> Join(SortStrings(pkgs), "/"),
       Tag |-> tag,
       Packages |-> SortStrings(expanded),
       Arch |-> amd64]

\* the images of the names and tags clients request
Images == [name \in Names, tag \in Tags |-> ImageFromName(name, tag)]

\* their fingerprints under each package source
CacheKeys ==
  [src \in PkgSources, name \in Names, tag \in Tags |->
     CacheKey(src, Images[name, tag].Packages, Images[name, tag].Tag)]

(***************************************************************************)
(* The resolver (nixery-prepare-image) and the layer grouper, seen from    *)
(* the orchestrator: the layers of an image and its symlink layer.         *)
(***************************************************************************)
StorePath(system, pkg) == "/nix/store/" \o SubSeq(system, 1, 3) \o "-" \o pkg

\* Layer.Hash
Hash(l) == Sha1(Join(l.Contents, ":"))

\* the packages of an image the package set does not have
MissingPkgs(image) == SelectSeq(image.Packages, LAMBDA p : p \notin Nixpkgs)

\* layers.Group on the small closure of an image: one grouped data layer
GroupedLayers(image) ==
  <<[Contents |-> [i \in 1..Len(image.Packages) |->
                     StorePath(image.Arch.nixSystem, image.Packages[i])],
     MergeRating |-> Len(image.Packages)]>>

\* ImageResult of a successful resolver run
ImageResultOf(image) ==
  [Error |-> "", Pkgs |-> <<>>,
   Layers |-> GroupedLayers(image),
   SymlinkLayer |-> [TarHash |-> Sha256("ln:" \o SubSeq(image.Arch.nixSystem, 1, 3)
                                         \o Join(image.Packages, ",")),
                     Path |-> "symlinks.tar"]]

NotFoundResult(image) ==
  [Error |-> "not_found", Pkgs |-> MissingPkgs(image),
   Layers |-> <<>>, SymlinkLayer |-> [TarHash |-> "", Path |-> ""]]

\* prepareImage: what the resolver returns for the requested images
ImageResults ==
  [name \in Names, tag \in Tags |->
     IF MissingPkgs(Images[name, tag]) # <<>> THEN NotFoundResult(Images[name, tag])
     ELSE ImageResultOf(Images[name, tag])]

(***************************************************************************)
(* Manifest builder.                                                       *)
(***************************************************************************)
\* the bytes packStorePaths writes for a layer, and their uncompressed form
TarGz(key) == "gz:" \o key

Tar(key) == "tar:" \o key

\* sort.Slice by MergeRating, highest first (insertion keeps equal ratings
\* in their order)
RECURSIVE InsertByRating(_, _)
InsertByRating(e, s) ==
  IF s = <<>> THEN <<e>>
  ELSE IF e.MergeRating > Head(s).MergeRating THEN <<e>> \o s
  ELSE <<Head(s)>> \o InsertByRating(e, Tail(s))

RECURSIVE SortByRating(_)
SortByRating(s) ==
  IF s = <<>> THEN <<>>
  ELSE InsertByRating(s[Len(s)], SortByRating(SubSeq(s, 1, Len(s) - 1)))

configLayer(archName, hashes) ==
  LET j == "{architecture:" \o archName \o ",os:linux,rootfs:{type:layers,diff_ids:["
           \o Join(hashes, ",") \o "]},config:{}}"
  IN  [Config |-> j, SHA256 |-> Sha256(j)]

\* Manifest: the manifest JSON and the config layer
Manifest(archName, layers) ==
  LET sorted == SortByRating(layers)
      hashes == [i \in 1..Len(sorted) |-> sorted[i].TarHash]
      c == configLayer(archName, hashes)
      ls == [i \in 1..Len(sorted) |-> "{digest:" \o sorted[i].Digest \o "}"]
  IN  [m |-> "{schemaVersion:2,config:{digest:sha256:" \o c.SHA256
             \o "},layers:[" \o Join(ls, ",") \o "]}",
       c |-> c]

\* the byte strings of the model are JSON documents, which begin and end
\* with a brace, and what interrupted writes leave of them
ValidJSON(s) == Len(s) >= 2 /\ CharAt(s, 1) = "{" /\ CharAt(s, Len(s)) = "}"

\* json.Marshal of a json.RawMessage: the bytes when they are well-formed
\* JSON, nothing (the error is dropped by the caller) when they are not
Marshal(m) == IF ValidJSON(m) THEN m ELSE ""

\* the position of the first occurrence of sub in s from position from on,
\* 0 when there is none; the string is searched a window at a time, each
\* window twice as wide as the one before
RECURSIVE FindWithin(_, _, _, _)
FindWithin(s, sub, from, width) ==
  LET last == Len(s) - Len(sub) + 1
      to == IF from + width - 1 < last THEN from + width - 1 ELSE last
      hits == {i \in from..to : SubSeq(s, i, i + Len(sub) - 1) = sub}
  IN  IF from > last THEN 0
      ELSE IF hits # {} THEN CHOOSE i \in hits : \A j \in hits : i <= j
      ELSE FindWithin(s, sub, to + 1, 2 * width)

FindFrom(s, sub, from) == FindWithin(s, sub, from, 16)

Find(s, sub) == FindFrom(s, sub, 1)

\* json.Marshal of a manifest.Entry: MergeRating is tagged json:"-"
EntryJSON(e) == "{digest:" \o e.Digest \o ",TarHash:" \o e.TarHash \o "}"

\* json.Unmarshal into a manifest.Entry
ParseEntry(s) ==
  LET t == Find(s, ",TarHash:")
  IN  [Digest |-> SubSeq(s, 9, t - 1),
       MergeRating |-> 0,
       TarHash |-> SubSeq(s, t + 9, Len(s) - 1)]

\* the digests of the layers array of a manifest, read from position from
RECURSIVE LayerDigests(_, _)
LayerDigests(m, from) ==
  LET i == FindFrom(m, "{digest:sha256:", from)
  IN  IF i = 0 THEN {}
      ELSE LET j == FindFrom(m, "}", i)
           IN  {SubSeq(m, i + 15, j - 1)} \cup LayerDigests(m, j)

\* the digests a manifest references: its config and its layers
Digests(m) ==
  LET a == Find(m, "config:{digest:sha256:")
      b == FindFrom(m, "},layers:[", a + 1)
  IN  IF a = 0 \/ b = 0 THEN {}
      ELSE {SubSeq(m, a + 22, b - 1)} \cup LayerDigests(m, b)

\* the digests of the layers array of a manifest in their order, read from
\* position from
RECURSIVE LayerSeq(_, _)
LayerSeq(m, from) ==
  LET i == FindFrom(m, "{digest:sha256:", from)
  IN  IF i = 0 THEN <<>>
      ELSE LET j == FindFrom(m, "}", i)
           IN  <<SubSeq(m, i + 8, j - 1)>> \o LayerSeq(m, j)

\* the layers array of a manifest
ManifestLayers(m) ==
  LET a == Find(m, "config:{digest:sha256:")
      b == FindFrom(m, "},layers:[", a + 1)
  IN  IF a = 0 \/ b = 0 THEN <<>> ELSE LayerSeq(m, b)

RECURSIVE SplitComma(_, _)
SplitComma(s, from) ==
  LET i == FindFrom(s, ",", from)
  IN  IF i = 0 THEN <<SubSeq(s, from, Len(s))>>
      ELSE <<SubSeq(s, from, i - 1)>> \o SplitComma(s, i + 1)

\* rootfs.diff_ids of a config
DiffIDs(cfg) ==
  LET a == Find(cfg, "diff_ids:[")
      b == FindFrom(cfg, "]},config:", a + 1)
  IN  IF a = 0 \/ b = 0 \/ b = a + 10 THEN <<>>
      ELSE SplitComma(SubSeq(cfg, a + 10, b - 1), 1)

\* the architecture a manifest declares through its config
DeclaredArch(m) ==
  LET pre == "{schemaVersion:2,config:{digest:sha256:H<{architecture:"
  IN  IF HasPrefix(m, pre \o "arm64,") THEN "arm64"
      ELSE IF HasPrefix(m, pre \o "amd64,") THEN "amd64"
      ELSE "none"

(***************************************************************************)
(* Layer grouper.  Sizes are counted in units of 1,000,000 bytes; merge    *)
(* ratings stay far below 2^64 for the graphs explored.                    *)
(***************************************************************************)
\* number of store paths of a runtime graph
MaxNodes == 3

\* the largest layer budget Group is called with directly
MaxBudget == 3

\* the maximum number of layers Group may use for an image
LayerBudget == 94

\* bigOrPopular: sizeThreshold (100 MB)
sizeThreshold == 100

LowerAlnum == "abcdefghijklmnopqrstuvwxyz0123456789"

Digits == "0123456789"

\* nixRegexp.ReplaceAllString(c.Path, ""): the store path without
\* ^/nix/store/[a-z0-9]+-
DOTID(path) ==
  LET pre == "/nix/store/"
      i == FindFrom(path, "-", Len(pre) + 1)
  IN  IF /\ HasPrefix(path, pre)
         /\ i > Len(pre) + 1
         /\ \A k \in (Len(pre) + 1)..(i - 1) :
              \E j \in 1..Len(LowerAlnum) : CharAt(path, k) = CharAt(LowerAlnum, j)
      THEN SubSeq(path, i + 1, Len(path))
      ELSE path

\* a closure is promoted by its size alone
bigOnly(c) == c.Size > sizeThreshold

\* bigOrPopular
bigOrPopular(c) == c.Size > sizeThreshold \/ c.Popularity >= 1000

\* the closures of buildGraph: the nodes 1..n of the graph, node 0 is the
\* fake root
closures(rg, p) ==
  [i \in 1..Len(rg.Graph) |->
     [GraphID |-> i,
      Path |-> rg.Graph[i].Path,
      Size |-> rg.Graph[i].Size,
      Refs |-> rg.Graph[i].Refs,
      Popularity |-> IF DOTID(rg.Graph[i].Path) \in DOMAIN p
                     THEN p[DOTID(rg.Graph[i].Path)] ELSE 1]]

\* buildGraph: cmap maps a store path to its node; edges from the root to
\* the top-level paths, insertEdges for every closure
buildGraph(rg, p) ==
  LET cl == closures(rg, p)
      cmap(path) == CHOOSE i \in DOMAIN cl :
                      /\ cl[i].Path = path
                      /\ \A j \in DOMAIN cl : cl[j].Path = path => j <= i
      mapped == {cmap(cl[i].Path) : i \in DOMAIN cl}
      top == {<<0, cmap(rg.References[k])>> : k \in DOMAIN rg.References}
      promoted == {<<0, i>> : i \in {k \in mapped : bigOrPopular(cl[k])}}
      deps == UNION {{<<i, cmap(cl[i].Refs[k])>> :
                        k \in {x \in DOMAIN cl[i].Refs : cl[i].Refs[x] # cl[i].Path}} :
                     i \in mapped}
  IN  [closures |-> cl, edges |-> top \cup promoted \cup deps]

\* the nodes reached from the nodes S without passing through a node of
\* without
RECURSIVE ReachFrom(_, _, _)
ReachFrom(g, S, without) ==
  LET N == S \cup ({e[2] : e \in {x \in g.edges : x[1] \in S}} \ without)
  IN  IF N = S THEN S ELSE ReachFrom(g, N, without)

\* flow.Dominators: the pairs of a node reachable from the root and its
\* immediate dominator
Dominators(g) ==
  LET all == ReachFrom(g, {0}, {})
      dom == UNION {{<<d, n>> : n \in (IF d = 0 THEN all
                                        ELSE all \ ReachFrom(g, {0}, {d}))} : d \in all}
      strict(n) == {d \in all \ {n} : <<d, n>> \in dom}
  IN  {<<n, CHOOSE d \in strict(n) : \A e \in strict(n) : <<e, d>> \in dom>> :
         n \in all \ {0}}

\* DominatorTree.DominatedBy: the nodes d immediately dominates
DominatedBy(dt, d) == {p[1] : p \in {x \in dt : x[2] = d}}

\* the loop of groupLayer: the root of a subtree and all nodes below it
RECURSIVE Subtree(_, _)
Subtree(dt, S) ==
  LET N == S \cup UNION {DominatedBy(dt, c) : c \in S}
  IN  IF N = S THEN S ELSE Subtree(dt, N)

RECURSIVE SumSizes(_, _)
SumSizes(cl, S) ==
  IF S = {} THEN 0
  ELSE LET n == CHOOSE x \in S : TRUE IN cl[n].Size + SumSizes(cl, S \ {n})

RECURSIVE PathsOf(_, _)
PathsOf(cl, S) ==
  IF S = {} THEN <<>>
  ELSE LET n == CHOOSE x \in S : TRUE IN <<cl[n].Path>> \o PathsOf(cl, S \ {n})

\* a layer of every node root reaches in the graph, dominated or not
groupLayerReached(g, dt, root) ==
  LET nodes == ReachFrom(g, {root}, {})
  IN  [Contents |-> SortStrings(PathsOf(g.closures, nodes)),
       MergeRating |-> g.closures[root].Popularity * SumSizes(g.closures, nodes)]

\* groupLayer
groupLayer(g, dt, root) ==
  LET nodes == Subtree(dt, {root})
  IN  [Contents |-> SortStrings(PathsOf(g.closures, nodes)),
       MergeRating |-> g.closures[root].Popularity * SumSizes(g.closures, nodes)]

\* a merge that keeps the contents of the first layer only
mergeDropping(a, b) ==
  [Contents |-> a.Contents, MergeRating |-> a.MergeRating + b.MergeRating]

\* Layer.merge
merge(a, b) ==
  [Contents |-> a.Contents \o b.Contents, MergeRating |-> a.MergeRating + b.MergeRating]

\* a merge loop that stops one layer above the budget
RECURSIVE mergeAboveBudget(_, _)
mergeAboveBudget(b, layers) ==
  IF Len(layers) <= b + 1 THEN layers
  ELSE mergeAboveBudget(b, <<merge(layers[1], layers[2])>> \o SubSeq(layers, 3, Len(layers)))

\* the merge loop of dominate
RECURSIVE mergeLayers(_, _)
mergeLayers(b, layers) ==
  IF Len(layers) <= b THEN layers
  ELSE mergeLayers(b, <<merge(layers[1], layers[2])>> \o SubSeq(layers, 3, Len(layers)))

\* sort.Slice by MergeRating, lowest first, of layers that DominatedBy
\* returns in no particular order: layers of equal rating end in any order
RECURSIVE SortedOrders(_)
SortedOrders(S) ==
  IF S = {} THEN {<<>>}
  ELSE LET low == {l \in S : \A k \in S : l.MergeRating <= k.MergeRating}
       IN  UNION {{<<l>> \o rest : rest \in SortedOrders(S \ {l})} : l \in low}

\* dominate: the outputs it can return
dominate(b, g) ==
  LET dt == Dominators(g)
      layers == {groupLayer(g, dt, n) : n \in DominatedBy(dt, 0)}
  IN  {mergeLayers(b, s) : s \in SortedOrders(layers)}

\* Group
Group(rg, p, b) == dominate(b, buildGraph(rg, p))

(***************************************************************************)
(* The runtime graphs the resolver returns: the closure of the top-level   *)
(* paths, every path with a reference to itself and its closure size.      *)
(***************************************************************************)
PathNames == <<"z9-glibc", "a1-hello", "m5-cacert", "b2-zlib", "k7-bash">>

PathOfNode(i) == "/nix/store/" \o PathNames[i]

\* what sets a store path apart: none does, or one is big, popular, or
\* known to the popularity map without being popular
Specials ==
  {[node |-> 0, kind |-> "none"]}
  \cup [node : 1..MaxNodes, kind : {"big", "popular", "known"}]

\* a path refers to paths after it only: the store is acyclic
Shapes ==
  {q \in [n : 1..MaxNodes,
          E : SUBSET {e \in (1..MaxNodes) \X (1..MaxNodes) : e[1] < e[2]},
          roots : SUBSET (1..MaxNodes),
          sp : Specials] :
     /\ \A e \in q.E : e[2] <= q.n
     /\ q.roots \subseteq 1..q.n
     /\ \A i \in 1..q.n : (\A e \in q.E : e[2] # i) => i \in q.roots
     /\ q.sp.node <= q.n}

RECURSIVE RefClosure(_, _)
RefClosure(E, S) ==
  LET N == S \cup {e[2] : e \in {x \in E : x[1] \in S}}
  IN  IF N = S THEN S ELSE RefClosure(E, N)

\* the elements of a set of numbers in increasing order
RECURSIVE Ascending(_)
Ascending(S) ==
  IF S = {} THEN <<>>
  ELSE LET m == CHOOSE x \in S : \A y \in S : x <= y IN <<m>> \o Ascending(S \ {m})

RuntimeGraphOf(q) ==
  LET own(i) == IF q.sp.kind = "big" /\ q.sp.node = i THEN sizeThreshold + 1 ELSE 1
      closure(i) == RefClosure(q.E, {i})
      size(i) == LET c == Ascending(closure(i))
                     sum[k \in 0..Len(c)] == IF k = 0 THEN 0 ELSE own(c[k]) + sum[k - 1]
                 IN  sum[Len(c)]
      deps(i) == Ascending({e[2] : e \in {x \in q.E : x[1] = i}})
      roots == Ascending(q.roots)
  IN  [References |-> [k \in 1..Len(roots) |-> PathOfNode(roots[k])],
       Graph |-> [i \in 1..q.n |->
                    [Size |-> size(i),
                     Path |-> PathOfNode(i),
                     Refs |-> <<PathOfNode(i)>>
                              \o [k \in 1..Len(deps(i)) |-> PathOfNode(deps(i)[k])]]]]

PopularityOf(q) ==
  CASE q.sp.kind = "popular" -> (DOTID(PathOfNode(q.sp.node)) :> 1000)
    [] q.sp.kind = "known" -> (DOTID(PathOfNode(q.sp.node)) :> 999)
    [] OTHER -> <<>>

\* an image of more top-level packages than the layer budget, none of which
\* refers to another
WidePath(i) ==
  "/nix/store/w" \o CharAt(Digits, (i \div 10) + 1) \o CharAt(Digits, (i % 10) + 1) \o "-pkg"

WideGraph ==
  [References |-> [i \in 1..(LayerBudget + 1) |-> WidePath(i)],
   Graph |-> [i \in 1..(LayerBudget + 1) |->
                [Size |-> i, Path |-> WidePath(i), Refs |-> <<WidePath(i)>>]]]

\* the graphs and popularity maps explored
Graphs ==
  {[refs |-> RuntimeGraphOf(q), pop |-> PopularityOf(q)] : q \in Shapes}
  \cup {[refs |-> WideGraph, pop |-> <<>>]}

\* the inputs of Group explored
Inputs ==
  {[refs |-> x.refs, pop |-> x.pop, budget |-> b] :
     x \in {y \in Graphs : y.refs # WideGraph}, b \in 1..MaxBudget}
  \cup {[refs |-> WideGraph, pop |-> <<>>, budget |-> b] :
          b \in {LayerBudget - 2, LayerBudget}}

\* what Group can return for each input
GroupResults == [in \in Inputs |-> Group(in.refs, in.pop, in.budget)]

\* what Group can return to prepareLayers for each graph
ImageLayers == [x \in Graphs |-> Group(x.refs, x.pop, LayerBudget)]

NoGraph == [References |-> <<>>, Graph |-> <<>>]

(***************************************************************************)
(* Storage backends.  A bucket is a function from object keys to contents. *)
(* Every operation yields the set of its possible outcomes; faults counts  *)
(* the calls to the outside that failed in an outcome.                     *)
(***************************************************************************)
Put(st, path, c) == [p \in DOMAIN st \cup {path} |-> IF p = path THEN c ELSE st[p]]

Del(st, path) == [p \in DOMAIN st \ {path} |-> st[p]]

\* what an interrupted write leaves of the bytes c
Partial(c) == IF Len(c) = 0 THEN "" ELSE SubSeq(c, 1, Len(c) - 1)

\* the start of Persist: the filesystem backend creates or truncates the
\* file at its key, the object stores show nothing until the upload ends
PersistOpen(b, st, path) == IF b = "filesystem" THEN Put(st, path, "") ELSE st

\* the end of Persist of the bytes c; lw tells that the writer function
\* itself can fail (it reads from disk or packs store paths)
PersistClose(b, st, path, c, lw) ==
  {[st |-> Put(st, path, c), ok |-> TRUE, faults |-> 0]}
  \cup
  CASE b = "filesystem" ->
         {[st |-> Put(st, path, Partial(c)), ok |-> FALSE, faults |-> 1]}
    [] b = "gcs" ->
         {[st |-> st, ok |-> FALSE, faults |-> 1]}
    [] OTHER ->
         {[st |-> st, ok |-> FALSE, faults |-> 1]}
         \cup (IF lw THEN {[st |-> Put(st, path, Partial(c)), ok |-> FALSE, faults |-> 1]}
               ELSE {})

Persist(b, st, path, c, lw) == PersistClose(b, PersistOpen(b, st, path), path, c, lw)

Fetch(st, path) ==
  IF path \in DOMAIN st
  THEN {[ok |-> TRUE, c |-> st[path], faults |-> 0], [ok |-> FALSE, c |-> "", faults |-> 1]}
  ELSE {[ok |-> FALSE, c |-> "", faults |-> 0]}

\* FSBackend.Move: os.Rename
FSMove(st, old, new) ==
  IF old \in DOMAIN st
  THEN {[st |-> Put(Del(st, old), new, st[old]), ok |-> TRUE, moved |-> TRUE, faults |-> 0],
        [st |-> st, ok |-> FALSE, moved |-> FALSE, faults |-> 1]}
  ELSE {[st |-> st, ok |-> FALSE, moved |-> FALSE, faults |-> 0]}

\* the deletion of the old object after a copy: its error is logged and
\* dropped
DeleteOld(st, old, moved, n) ==
  {[st |-> Del(st, old), ok |-> TRUE, moved |-> moved, faults |-> n]}
  \cup (IF old \in DOMAIN st
        THEN {[st |-> st, ok |-> TRUE, moved |-> moved, faults |-> n + 1]}
        ELSE {})

\* GCSBackend.Move: the rewriteTo call, whose HTTP status is not looked at,
\* then the deletion of the old object
GCSMove(st, old, new) ==
  {[st |-> st, ok |-> FALSE, moved |-> FALSE, faults |-> 1]}
  \cup (IF old \in DOMAIN st
        THEN DeleteOld(Put(st, new, st[old]), old, TRUE, 0)
             \cup DeleteOld(st, old, FALSE, 1)
        ELSE DeleteOld(st, old, FALSE, 0))

\* S3Backend.Move: CopyObject, then DeleteObject
S3Move(st, old, new) ==
  IF old \in DOMAIN st
  THEN {[st |-> st, ok |-> FALSE, moved |-> FALSE, faults |-> 1]}
       \cup DeleteOld(Put(st, new, st[old]), old, TRUE, 0)
  ELSE {[st |-> st, ok |-> FALSE, moved |-> FALSE, faults |-> 0]}

Move(b, st, old, new) ==
  CASE b = "filesystem" -> FSMove(st, old, new)
    [] b = "gcs" -> GCSMove(st, old, new)
    [] OTHER -> S3Move(st, old, new)

\* ioutil.WriteFile
WriteFile(dir, key, m) ==
  {[st |-> Put(dir, key, m), faults |-> 0],
   [st |-> Put(dir, key, Partial(m)), faults |-> 1]}

(***************************************************************************)
(* Routes of the registry API.                                             *)
(***************************************************************************)
\* \w of the route regexes
WordChars == "0123456789ABCDEFGHIJKLMNOPQRSTUVWXYZ_abcdefghijklmnopqrstuvwxyz"

\* every character of s is one of chars
AllOf(s, chars) ==
  \A i \in 1..Len(s) : \E j \in 1..Len(chars) : CharAt(s, i) = CharAt(chars, j)

\* the text before (part 1) and after (part 2) the last slash of uri
AtLastSlash(uri) ==
  LET k == CHOOSE i \in 0..Len(uri) :
             /\ i > 0 => CharAt(uri, i) = "/"
             /\ \A j \in (i + 1)..Len(uri) : CharAt(uri, j) # "/"
  IN  <<SubSeq(uri, 1, k - 1), SubSeq(uri, k + 1, Len(uri))>>

\* manifestRegex.FindStringSubmatch:
\* ^/v2/([\w|\-|\.|\_|\/]+)/manifests/([\w|\-|\.|\_]+)$
manifestRegex(uri) ==
  LET head == AtLastSlash(uri)[1]
      tag == AtLastSlash(uri)[2]
      n == Len(head) - Len("/manifests")
      name == SubSeq(head, 5, n)
  IN  IF /\ HasPrefix(uri, "/v2/")
         /\ n >= 5
         /\ SubSeq(head, n + 1, Len(head)) = "/manifests"
         /\ AllOf(name, WordChars \o "|-./")
         /\ Len(tag) >= 1
         /\ AllOf(tag, WordChars \o "|-.")
      THEN <<uri, name, tag>>
      ELSE <<>>

\* blobRegex.FindStringSubmatch:
\* ^/v2/([\w|\-|\.|\_|\/]+)/(blobs|manifests)/sha256:(\w+)$
blobRegex(uri) ==
  LET head == AtLastSlash(uri)[1]
      last == AtLastSlash(uri)[2]
      digest == SubSeq(last, Len("sha256:") + 1, Len(last))
      kind == IF Len(head) >= 6 /\ SubSeq(head, Len(head) - 5, Len(head)) = "/blobs"
              THEN "blobs" ELSE "manifests"
      n == Len(head) - Len(kind) - 1
      name == SubSeq(head, 5, n)
  IN  IF /\ HasPrefix(uri, "/v2/")
         /\ n >= 5
         /\ SubSeq(head, n + 1, Len(head)) = "/" \o kind
         /\ AllOf(name, WordChars \o "|-./")
         /\ HasPrefix(last, "sha256:")
         /\ Len(digest) >= 1
         /\ AllOf(digest, WordChars)
      THEN <<uri, name, kind, digest>>
      ELSE <<>>

\* the answer to a request: the handler it went to, whether the handler
\* turned to the storage backend, and what was written to the response
Response(handler, storage, status, body, location) ==
  [handler |-> handler, storage |-> storage,
   status |-> status, body |-> body, location |-> location]

\* FSBackend.ServeLayer: http.ServeFile of layers/<digest>; S3Backend.Serve
\* and GCSBackend.ServeLayer: a redirect to the URL of the object, and
\* nothing written when the URL cannot be made
Serve(b, st, digest) ==
  IF b = "filesystem"
  THEN IF "layers/" \o digest \in DOMAIN st
       THEN {[resp |-> Response("serveBlob", TRUE, 200, st["layers/" \o digest], ""),
              faults |-> 0]}
       ELSE {[resp |-> Response("serveBlob", TRUE, 404, "404 page not found", ""),
              faults |-> 0]}
  ELSE {[resp |-> Response("serveBlob", FALSE, 303, "",
                           "https://" \o b \o "/bucket/layers/" \o digest),
         faults |-> 0],
        [resp |-> Response("serveBlob", FALSE, 200, "", ""), faults |-> 1]}

\* ServeHTTP: the answers to a request for uri; a manifest request is
\* handed to serveManifestTag
ServeHTTP(b, st, uri) ==
  IF uri = "/v2/"
  THEN {[resp |-> Response("v2", FALSE, 200, "", ""), faults |-> 0]}
  ELSE IF Len(manifestRegex(uri)) = 3
  THEN {[resp |-> Response("serveManifestTag", TRUE, 0, "", ""), faults |-> 0]}
  ELSE IF Len(blobRegex(uri)) = 4
  THEN Serve(b, st, blobRegex(uri)[4])
  ELSE {[resp |-> Response("", FALSE, 404, "", ""), faults |-> 0]}

\* the digest of a blob the backend holds and of one it does not hold
BlobDigest == Commit \o SubSeq(Commit, 1, 24)

OtherDigest == SubSeq(Commit, 1, 24) \o Commit

\* the request URIs clients send below /v2/
RequestURIs ==
  {"/v2/", "/v2/?n=1", "/v2/_catalog", "/v2/hello/tags/list",
   "/v2/hello/manifests/latest", "/v2/shell/git/manifests/v1.0_a-b",
   "/v2/hello/manifests/", "/v2//manifests/latest", "/v2/manifests/latest",
   "/v2/hello/manifests/a:b",
   "/v2/hello/blobs/sha256:" \o BlobDigest, "/v2/hello/blobs/sha256:" \o OtherDigest,
   "/v2/hello/manifests/sha256:" \o BlobDigest,
   "/v2/hello/manifests/sha256:" \o OtherDigest,
   "/v2/hello/blobs/sha256:" \o Commit, "/v2/hello/blobs/sha256:" \o BlobDigest \o "0",
   "/v2/hello/blobs/sha256:ABCDEF", "/v2/hello/blobs/sha256:not_hex",
   "/v2/hello/blobs/sha256:", "/v2/hello/blobs/md5:" \o BlobDigest,
   "/v2/hello/blobs/" \o BlobDigest, "/v2/hello/uploads/sha256:" \o BlobDigest,
   "/v2/blobs/sha256:" \o BlobDigest}

\* the image names ImageFromName is followed on: one to three segments
NameSegments == {"shell", "arm64", "hello", "git", "nano"}

ImageNames ==
  NameSegments
  \cup {a \o "/" \o b : a, b \in NameSegments}
  \cup {a \o "/" \o b \o "/" \o c : a, b, c \in NameSegments}

(***************************************************************************)
(* The ring of recent build errors.  A slot of the ring is <<>> while its  *)
(* Value is nil and <<e>> when it holds the BuildError e; errors maps a    *)
(* key to the number of its slot.                                          *)
(***************************************************************************)
\* main: builder.NewErrorCache(15)
ErrorCacheSize == 15

\* number of concurrent callers of AddError
NumAdders == 2

\* number of insertions into the ring followed
MaxAdds == 17

\* number of calls a caller begins while another call is under way
MaxOverlaps == 1

\* the keys errors are added under: two more than the ring has slots
ErrorKeys == [i \in 1..(ErrorCacheSize + 2) |->
                "img" \o CharAt(Digits, (i \div 10) + 1) \o CharAt(Digits, (i % 10) + 1)]

NewErrorCache(size) ==
  [size |-> size,
   slots |-> [i \in 0..((IF size > 1 THEN size ELSE 1) - 1) |-> <<>>],
   current |-> 0,
   errors |-> <<>>]

\* AddError, lines 33-38: is the key in the map?
exists(c, key) == key \in DOMAIN c.errors

\* AddError, lines 43-59: the key of the slot at current leaves the map, the
\* slot takes the new error, current moves on
insert(c, key, errorMsg) ==
  LET old == c.slots[c.current]
      kept == IF old = <<>> THEN c.errors ELSE Del(c.errors, old[1].Key)
  IN  [c EXCEPT !.slots[c.current] = <<[Key |-> key, Error |-> errorMsg]>>,
                !.errors = Put(kept, key, c.current),
                !.current = (c.current + 1) % Cardinality(DOMAIN c.slots)]

\* GetAllErrors before it reverses: ring.Do from the slot at current on, the
\* oldest error first
RECURSIVE ringDo(_, _)
ringDo(c, n) ==
  IF n = Cardinality(DOMAIN c.slots) THEN <<>>
  ELSE c.slots[(c.current + n) % Cardinality(DOMAIN c.slots)] \o ringDo(c, n + 1)

\* the errors in the order of ring.Do
GetAllErrorsUnreversed(c) == ringDo(c, 0)

\* GetAllErrors: the errors of ring.Do, reversed
GetAllErrors(c) ==
  [i \in 1..Len(ringDo(c, 0)) |-> ringDo(c, 0)[Len(ringDo(c, 0)) + 1 - i]]

\* a caller that is not inside AddError
NoAdder == [pc |-> "idle", key |-> "", overlaps |-> 0]

\* no operation has been called
NoCall == [op |-> "none"]

(***************************************************************************)
(* State of the server.                                                    *)
(***************************************************************************)
VARIABLES
  backend,    \* the configured storage backend
  pkgSource,  \* the configured package source
  store,      \* the bucket of the storage backend
  mdir,       \* LocalCache.mdir: manifest files of the local cache
  lcache,     \* LocalCache.lcache: layer entries of the local cache
  rq,         \* the requests: position in the handler and local variables
  tasks,      \* goroutines started with go that have not finished
  faults,     \* the calls to the outside that have failed so far
  refs,       \* the runtime graph the resolver returned
  pop,        \* State.Pop: the popularity of packages
  budget,     \* the layer budget Group is called with
  grouped,    \* the results of the calls of Group
  built,      \* the manifests built from the runtime graph
  ec,         \* State.Errors: the ring of recent build errors
  adders,     \* the calls of AddError: position, key, calls begun during another
  call,       \* the last call of an operation followed on its own
  added,      \* the errors AddError has put into the ring, the latest last
  passed,     \* the keys and manifests cacheManifest has been called with
  downloadQueue, \* popcount: the items not yet taken from the closed queue
  narinfos,   \* popcount: the channel of fetched narinfos
  downloaders, \* popcount: the channel on which downloaders tell their end
  workers,    \* popcount: the downloader goroutines
  count,      \* popcount: the count of the finaliser
  loops,      \* popcount: the positions of the finaliser and of main
  counts,     \* popcount: the narinfos main has received, in order
  fetched     \* popcount: the items whose narinfo was fetched without error

\* the state of the layer grouper and of the builds from a runtime graph
gvars == <<refs, pop, budget, grouped, built>>

\* the error ring, the calls of AddError under way, the last call of an
\* operation that is followed on its own, the errors added to the ring and
\* the arguments of the calls of cacheManifest
uvars == <<ec, adders, call, added, passed>>

\* the state of a run of popcount
pvars == <<downloadQueue, narinfos, downloaders, workers, count, loops, counts, fetched>>

vars == <<backend, pkgSource, store, mdir, lcache, rq, tasks, faults, gvars, uvars, pvars>>

(***************************************************************************)
(* popcount: downloaders take items from the closed queue and send the     *)
(* narinfos they fetch; the finaliser counts the downloaders that have     *)
(* ended and closes the channel main reads from.                           *)
(***************************************************************************)
\* number of store paths in the queue
MaxPaths == 3

\* number of downloaders; main starts 42
NumDownloaders == 2

\* capacity of the channel narinfos; main makes it with 50
NarinfosCap == 1

\* a channel: the buffered elements, the calls of close, and the sends
\* that came after a close
NewChan == [buf |-> <<>>, closes |-> 0, late |-> 0]

\* the server runs, popcount does not
NoPopcount ==
  /\ downloadQueue = <<>>
  /\ narinfos = NewChan
  /\ downloaders = NewChan
  /\ workers = [w \in 1..NumDownloaders |-> [pc |-> "none", item |-> 0]]
  /\ count = 0
  /\ loops = [finaliser |-> "none", main |-> "none"]
  /\ counts = <<>>
  /\ fetched = {}

NoResp == [status |-> 0, code |-> "", message |-> "", body |-> ""]

\* a request that has not arrived yet.  The last fields record what happened
\* while it was handled: the resolver ran (invoked), the manifest came from
\* the manifest cache (hit), a request with the same fingerprint had been
\* answered with a manifest when it arrived (later), it wrote to the bucket
\* or started a goroutine that does (wrote), it looked the manifest cache up
\* or handed a manifest to it (mc), the key of a layer whose entry it handed
\* to cacheLayer although the move did not happen (badDesc), a digest the
\* returned manifest references was not in the bucket (absent), a request for
\* the same name and tag had been answered with an error when it arrived
\* (retry), the tier of the manifest cache that answered the lookup, 0 when
\* none did (tier), and the bytes it gave (got).
NewRequest ==
  [pc |-> "idle", name |-> "", tag |-> "", key |-> "", stage |-> "",
   entries |-> <<>>, m |-> "", resp |-> NoResp,
   invoked |-> FALSE, hit |-> FALSE, later |-> FALSE, wrote |-> FALSE,
   mc |-> FALSE, badDesc |-> "", absent |-> FALSE, retry |-> FALSE,
   tier |-> 0, got |-> ""]

Init ==
  /\ \E c \in Configs : backend = c.backend /\ pkgSource = c.pkgs
  /\ store = <<>>
  /\ mdir = <<>>
  /\ lcache = <<>>
  /\ rq = [r \in Reqs |-> NewRequest]
  /\ tasks = {}
  /\ faults = 0
  /\ refs = NoGraph
  /\ pop = <<>>
  /\ budget = LayerBudget
  /\ grouped = <<>>
  /\ built = <<>>
  /\ ec = NewErrorCache(ErrorCacheSize)
  /\ adders = [p \in 1..NumAdders |-> NoAdder]
  /\ call = NoCall
  /\ added = <<>>
  /\ passed = {}
  /\ NoPopcount

\* the outcome res of a call happens within the bound on failures
Fault(n) == faults + n <= MaxFaults /\ faults' = faults + n

\* go f(...): the goroutines ts are started
Spawn(ts) == Cardinality(tasks \cup ts) <= MaxPending /\ tasks' = tasks \cup ts

(***************************************************************************)
(* Responses of the registry frontend.                                     *)
(***************************************************************************)
writeError(status, code, message) ==
  [status |-> status, code |-> code, message |-> message, body |-> ""]

BuildFailure == writeError(500, "UNKNOWN", "image build failure")

\* a missing package reported like any other build failure
NotFoundAsFailure(pkgs) == BuildFailure

NotFound(pkgs) ==
  writeError(404, "MANIFEST_UNKNOWN",
             "Could not find Nix packages: [" \o Join(pkgs, " ") \o "]")

\* the manifest written to the response whatever became of the persist
ManifestResponseUnchecked(ok, manifest) ==
  [status |-> 200, code |-> "", message |-> "", body |-> manifest]

\* the end of serveManifestTag: the manifest is written to the response
\* when it was persisted
ManifestResponse(ok, manifest) ==
  IF ~ok
  THEN writeError(500, "MANIFEST_UPLOAD", "could not upload manifest to blob store")
  ELSE [status |-> 200, code |-> "", message |-> "", body |-> manifest]

\* a handler that fails does not return
FinishHolding(q, resp) ==
  IF resp.status = 500 THEN [q EXCEPT !.pc = "held"]
  ELSE [q EXCEPT !.pc = "done", !.stage = "", !.entries = <<>>, !.m = "", !.resp = resp]

\* the handler returns: its local variables are gone
Finish(q, resp) ==
  [q EXCEPT !.pc = "done", !.stage = "", !.entries = <<>>, !.m = "", !.resp = resp]

ManifestPath(manifest) == "layers/" \o Sha256(manifest)

\* serveManifestTag after BuildImage returned the manifest m: the upload of
\* the manifest to its content-addressed key begins
PersistManifest(q, m) == [q EXCEPT !.pc = "writeManifest", !.m = Marshal(m)]

(***************************************************************************)
(* serveManifestTag and BuildImage up to the manifest cache lookup.        *)
(***************************************************************************)
manifestFromLocalCache(key) ==
  IF key \in DOMAIN mdir
  THEN {[ok |-> TRUE, c |-> mdir[key], faults |-> 0], [ok |-> FALSE, c |-> "", faults |-> 1]}
  ELSE {[ok |-> FALSE, c |-> "", faults |-> 0]}

\* a later request: one that arrives after a request with the same
\* non-empty fingerprint was answered with a manifest
Later(key) ==
  /\ key # ""
  /\ \E q \in Reqs : rq[q].pc = "done" /\ rq[q].key = key /\ rq[q].resp.status = 200

\* a retry: a request that arrives after a request for the same name and tag
\* was answered with an error
Retry(name, tag) ==
  \E q \in Reqs :
    /\ rq[q].pc = "done" /\ rq[q].name = name /\ rq[q].tag = tag
    /\ rq[q].resp.status \in {404, 500}

\* requests are numbered in the order of their arrival; a lookup in the
\* bucket can happen while cacheManifest and the local copy it has started
\* are still under way
Start(r) ==
  /\ rq[r].pc = "idle"
  /\ IF r = 1 THEN TRUE ELSE rq[r - 1].pc # "idle"
  /\ \E req \in Requests :
       LET name == req[1]
           tag == req[2]
           key == CacheKeys[pkgSource, name, tag]
           new == [rq[r] EXCEPT !.name = name, !.tag = tag, !.key = key,
                                !.later = Later(key), !.retry = Retry(name, tag)]
           q == [new EXCEPT !.mc = TRUE]
           Hit(m, tier) == PersistManifest([q EXCEPT !.hit = TRUE, !.wrote = TRUE,
                                                      !.tier = tier, !.got = m], m)
       IN  IF key = ""
           THEN /\ rq' = [rq EXCEPT ![r] = [new EXCEPT !.pc = "prepareImage"]]
                /\ UNCHANGED <<store, tasks, faults>>
           ELSE \E l \in manifestFromLocalCache(key) :
                  IF l.ok
                  THEN /\ rq' = [rq EXCEPT ![r] = Hit(l.c, 1)]
                       /\ store' = PersistOpen(backend, store, ManifestPath(Marshal(l.c)))
                       /\ Fault(l.faults)
                       /\ UNCHANGED tasks
                  ELSE \E f \in Fetch(store, "manifests/" \o key) :
                         /\ Fault(l.faults + f.faults)
                         /\ IF f.ok
                            THEN /\ rq' = [rq EXCEPT ![r] = Hit(f.c, 2)]
                                 /\ store' = PersistOpen(backend, store,
                                                         ManifestPath(Marshal(f.c)))
                                 /\ Cardinality(tasks) <= MaxPending + 1
                                 /\ tasks' = tasks \cup {[type |-> "localCacheManifest",
                                                           key |-> key, m |-> f.c]}
                            ELSE /\ rq' = [rq EXCEPT ![r] = [q EXCEPT !.pc = "prepareImage"]]
                                 /\ UNCHANGED <<store, tasks>>
  /\ UNCHANGED <<pvars, uvars, gvars, backend, pkgSource, mdir, lcache>>

(***************************************************************************)
(* prepareImage: the resolver runs.                                        *)
(***************************************************************************)
\* a resolver run that leaves a record of not_found under the fingerprint
\* of the request
PrepareImageRemembering(r) ==
  /\ rq[r].pc = "prepareImage"
  /\ LET q == [rq[r] EXCEPT !.invoked = TRUE]
         imageResult == ImageResults[q.name, q.tag]
     IN  \/ /\ imageResult.Error # ""
            /\ rq' = [rq EXCEPT ![r] = Finish(q, NotFound(imageResult.Pkgs))]
            /\ mdir' = IF q.key = "" THEN mdir ELSE Put(mdir, q.key, "{errors:not_found}")
            /\ Fault(0)
         \/ /\ imageResult.Error = ""
            /\ rq' = [rq EXCEPT ![r] = [q EXCEPT !.pc = "prepareLayers"]]
            /\ mdir' = mdir
            /\ Fault(0)
         \/ /\ rq' = [rq EXCEPT ![r] = Finish(q, BuildFailure)]
            /\ mdir' = mdir
            /\ Fault(1)
  /\ UNCHANGED <<pvars, uvars, gvars, backend, pkgSource, store, lcache, tasks>>

PrepareImage(r) ==
  /\ rq[r].pc = "prepareImage"
  /\ LET q == [rq[r] EXCEPT !.invoked = TRUE]
         imageResult == ImageResults[q.name, q.tag]
     IN  \/ /\ imageResult.Error # ""
            /\ rq' = [rq EXCEPT ![r] = Finish(q, NotFound(imageResult.Pkgs))]
            /\ Fault(0)
         \/ /\ imageResult.Error = ""
            /\ rq' = [rq EXCEPT ![r] = [q EXCEPT !.pc = "prepareLayers"]]
            /\ Fault(0)
         \/ /\ rq' = [rq EXCEPT ![r] = Finish(q, BuildFailure)]
            /\ Fault(1)
  /\ UNCHANGED <<pvars, uvars, gvars, backend, pkgSource, store, mdir, lcache, tasks>>

(***************************************************************************)
(* prepareLayers and uploadHashLayer.                                      *)
(***************************************************************************)
\* the upload a request performs in its stage: the key, the bytes, whether
\* the layer writer reads from disk
UploadOf(q) ==
  LET image == Images[q.name, q.tag]
      result == ImageResults[q.name, q.tag]
  IN  CASE q.stage = "layer" ->
             [key |-> Hash(result.Layers[1]),
              content |-> TarGz(Hash(result.Layers[1])), lw |-> TRUE]
        [] q.stage = "symlink" ->
             [key |-> result.SymlinkLayer.TarHash,
              content |-> "gz:" \o result.SymlinkLayer.TarHash, lw |-> TRUE]
        [] OTHER ->
             LET c == Manifest(image.Arch.imageArch, q.entries).c
             IN  [key |-> c.SHA256, content |-> c.Config, lw |-> FALSE]

layerFromLocalCache(key) ==
  IF key \in DOMAIN lcache THEN [ok |-> TRUE, entry |-> lcache[key]]
  ELSE [ok |-> FALSE, entry |-> <<>>]

\* the loop of prepareLayers over the grouped layers, up to the upload of
\* the first layer that is not cached
PrepareLayers(r) ==
  /\ rq[r].pc = "prepareLayers"
  /\ LET q == rq[r]
         l == ImageResults[q.name, q.tag].Layers[1]
         local == layerFromLocalCache(Hash(l))
         Cached(e) == [q EXCEPT !.pc = "upload", !.stage = "symlink", !.entries = <<e>>]
     IN  IF local.ok
         THEN /\ rq' = [rq EXCEPT ![r] = Cached(local.entry)]
              /\ Fault(0)
              /\ UNCHANGED tasks
         ELSE \E f \in Fetch(store, "builds/" \o Hash(l)) :
                /\ Fault(f.faults)
                /\ IF f.ok /\ ValidJSON(f.c)
                   THEN /\ rq' = [rq EXCEPT ![r] = Cached(ParseEntry(f.c))]
                        /\ Spawn({[type |-> "localCacheLayer", key |-> Hash(l),
                                   entry |-> ParseEntry(f.c)]})
                   ELSE /\ rq' = [rq EXCEPT ![r] = [q EXCEPT !.pc = "upload",
                                                              !.stage = "layer"]]
                        /\ UNCHANGED tasks
  /\ UNCHANGED <<pvars, uvars, gvars, backend, pkgSource, store, mdir, lcache>>

\* uploadHashLayer, first half: the bytes are written to staging/<key>
UploadPersist(r) ==
  /\ rq[r].pc = "upload"
  /\ LET q == rq[r]
     IN  \E u \in {UploadOf(q)} :
         \E res \in Persist(backend, store, "staging/" \o u.key, u.content, u.lw) :
           /\ Fault(res.faults)
           /\ store' = res.st
           /\ rq' = [rq EXCEPT ![r] =
                       IF res.ok THEN [q EXCEPT !.pc = "move", !.wrote = TRUE]
                       ELSE Finish([q EXCEPT !.wrote = TRUE], BuildFailure)]
  /\ UNCHANGED <<pvars, uvars, gvars, backend, pkgSource, mdir, lcache, tasks>>

\* the entry uploadHashLayer returns, completed by its caller
EntryOf(q) ==
  LET u == UploadOf(q)
      digest == "sha256:" \o Sha256(u.content)
  IN  IF q.stage = "layer"
      THEN [Digest |-> digest,
            MergeRating |-> ImageResults[q.name, q.tag].Layers[1].MergeRating,
            TarHash |-> "sha256:" \o Sha256(Tar(u.key))]
      ELSE [Digest |-> digest, MergeRating |-> 0, TarHash |-> "sha256:" \o u.key]

\* the manifests complete builds of the requested images yield, with the
\* digests they reference
BuiltManifests ==
  {Manifest(Images[req[1], req[2]].Arch.imageArch,
            <<EntryOf([NewRequest EXCEPT !.name = req[1], !.tag = req[2],
                                         !.stage = "layer"]),
              EntryOf([NewRequest EXCEPT !.name = req[1], !.tag = req[2],
                                         !.stage = "symlink"])>>).m :
     req \in {x \in Requests : ImageResults[x[1], x[2]].Error = ""}}

ManifestDigests == [m \in BuiltManifests |-> Digests(m)]

\* the digests the manifest m references
Referenced(m) == IF m \in BuiltManifests THEN ManifestDigests[m] ELSE Digests(m)

\* uploadHashLayer, second half: the staged object is moved to
\* layers/<sha256>; then the caller goes on: prepareLayers caches the entry
\* and uploads the next layer, BuildImage builds the manifest, caches it
\* and returns it to serveManifestTag
UploadMove(r) ==
  /\ rq[r].pc = "move"
  /\ LET q == rq[r]
         image == Images[q.name, q.tag]
     IN  \E u \in {UploadOf(q)}, e \in {EntryOf(q)} :
         \E res \in Move(backend, store, "staging/" \o u.key,
                         "layers/" \o Sha256(u.content)) :
           /\ Fault(res.faults)
           /\ IF ~res.ok
              THEN /\ rq' = [rq EXCEPT ![r] = Finish(q, BuildFailure)]
                   /\ store' = res.st
                   /\ UNCHANGED <<tasks, passed>>
              ELSE IF q.stage # "config"
              THEN /\ rq' = [rq EXCEPT ![r] =
                               [q EXCEPT !.pc = "upload",
                                         !.stage = IF q.stage = "layer" THEN "symlink"
                                                   ELSE "config",
                                         !.entries = Append(q.entries, e),
                                         !.badDesc = IF res.moved THEN q.badDesc
                                                     ELSE u.key]]
                   /\ store' = res.st
                   /\ Spawn({[type |-> "cacheLayer", key |-> u.key, entry |-> e]})
                   /\ UNCHANGED passed
              ELSE LET m == Manifest(image.Arch.imageArch, q.entries).m
                   IN  /\ store' = PersistOpen(backend, res.st, ManifestPath(Marshal(m)))
                       /\ IF q.key # ""
                          THEN /\ rq' = [rq EXCEPT ![r] =
                                          PersistManifest([q EXCEPT !.mc = TRUE], m)]
                               /\ Spawn({[type |-> "cacheManifest", key |-> q.key,
                                          m |-> m, open |-> FALSE]})
                               /\ passed' = passed \cup {<<q.key, m>>}
                          ELSE /\ rq' = [rq EXCEPT ![r] = PersistManifest(q, m)]
                               /\ UNCHANGED <<tasks, passed>>
  /\ UNCHANGED <<pvars, ec, adders, call, added, gvars, backend, pkgSource, mdir, lcache>>

\* serveManifestTag, end: the upload of the manifest to layers/<sha256>
\* ends and the response is written
PersistManifestClose(r) ==
  /\ rq[r].pc = "writeManifest"
  /\ LET q == rq[r]
     IN  \E res \in PersistClose(backend, store, ManifestPath(q.m), q.m, FALSE) :
           /\ Fault(res.faults)
           /\ store' = res.st
           /\ rq' = [rq EXCEPT ![r] =
                       Finish([q EXCEPT !.wrote = TRUE,
                                        !.absent = res.ok /\
                                          \E d \in Referenced(q.m) :
                                            "layers/" \o d \notin DOMAIN res.st],
                              ManifestResponse(res.ok, q.m))]
  /\ UNCHANGED <<pvars, uvars, gvars, backend, pkgSource, mdir, lcache, tasks>>

(***************************************************************************)
(* Goroutines started with go.                                             *)
(***************************************************************************)
LocalCacheManifest(t) ==
  /\ t.type = "localCacheManifest"
  /\ \E res \in WriteFile(mdir, t.key, t.m) :
       /\ Fault(res.faults)
       /\ mdir' = res.st
  /\ tasks' = tasks \ {t}
  /\ UNCHANGED <<pvars, uvars, gvars, backend, pkgSource, store, lcache, rq>>

LocalCacheLayer(t) ==
  /\ t.type = "localCacheLayer"
  /\ lcache' = Put(lcache, t.key, t.entry)
  /\ tasks' = tasks \ {t}
  /\ UNCHANGED <<pvars, uvars, gvars, backend, pkgSource, store, mdir, rq, faults>>

CacheLayer(t) ==
  /\ t.type = "cacheLayer"
  /\ lcache' = Put(lcache, t.key, t.entry)
  /\ \E res \in Persist(backend, store, "builds/" \o t.key, EntryJSON(t.entry), FALSE) :
       /\ Fault(res.faults)
       /\ store' = res.st
  /\ tasks' = tasks \ {t}
  /\ UNCHANGED <<pvars, uvars, gvars, backend, pkgSource, mdir, rq>>

\* cacheManifest: the local copy is left to another goroutine and the
\* upload to manifests/<key> begins
CacheManifestOpen(t) ==
  /\ t.type = "cacheManifest" /\ ~t.open
  /\ LET ts == (tasks \ {t}) \cup {[t EXCEPT !.open = TRUE],
                                    [type |-> "localCacheManifest", key |-> t.key, m |-> t.m]}
     IN  /\ Cardinality(ts) <= MaxPending + 1
         /\ tasks' = ts
  /\ store' = PersistOpen(backend, store, "manifests/" \o t.key)
  /\ UNCHANGED <<pvars, uvars, gvars, backend, pkgSource, mdir, lcache, rq, faults>>

\* cacheManifest: the upload ends; an error is logged
CacheManifestClose(t) ==
  /\ t.type = "cacheManifest" /\ t.open
  /\ \E res \in PersistClose(backend, store, "manifests/" \o t.key, t.m, FALSE) :
       /\ Fault(res.faults)
       /\ store' = res.st
  /\ tasks' = tasks \ {t}
  /\ UNCHANGED <<pvars, uvars, gvars, backend, pkgSource, mdir, lcache, rq>>

\* the server is started again between requests: NewCache makes an empty
\* layer map, the manifest files in the scratch directory are still there
Restart ==
  /\ \A r \in Reqs : rq[r].pc \in {"idle", "done"}
  /\ tasks = {}
  /\ lcache # <<>>
  /\ lcache' = <<>>
  /\ UNCHANGED <<pvars, uvars, gvars, backend, pkgSource, store, mdir, rq, tasks, faults>>

Next ==
  \/ Restart
  \/ \E r \in Reqs : Start(r)
  \/ \E r \in Reqs : PrepareImage(r)
  \/ \E r \in Reqs : PrepareLayers(r)
  \/ \E r \in Reqs : UploadPersist(r)
  \/ \E r \in Reqs : UploadMove(r)
  \/ \E r \in Reqs : PersistManifestClose(r)
  \/ \E t \in tasks : LocalCacheManifest(t)
  \/ \E t \in tasks : LocalCacheLayer(t)
  \/ \E t \in tasks : CacheLayer(t)
  \/ \E t \in tasks : CacheManifestOpen(t)
  \/ \E t \in tasks : CacheManifestClose(t)

Spec == Init /\ [][Next]_vars

\* a handler with no goroutine pending has a step to take: go starts its
\* goroutine and every call has an outcome without a failure
HandlerEnabled(r) ==
  /\ rq[r].pc \in {"prepareImage", "prepareLayers", "upload", "move", "writeManifest"}
  /\ tasks = {}

\* the server in which a handler that has a step to take takes it, and so
\* do the goroutines the handlers started: the calls to the resolver and
\* the backend return
FairSpec ==
  /\ Spec
  /\ \A r \in Reqs :
       []<>(~HandlerEnabled(r)) \/ []<><<rq'[r] # rq[r]>>_vars
  /\ []<>(tasks = {}) \/ []<><<tasks' # tasks /\ rq' = rq>>_vars

(***************************************************************************)
(* The layers of one image: Group on the runtime graph the resolver        *)
(* returned, and builds of the image from it by a server whose package     *)
(* source is not cacheable and whose calls to the outside succeed.         *)
(***************************************************************************)
\* number of calls of Group on the same input
MaxCalls == 2

\* number of builds of the image
MaxBuilds == 2

\* the key of the symlink layer the resolver built for the graph
SymlinkKey(rg) == Sha256("ln:" \o Join(rg.References, ":"))

\* the entry uploadHashLayer and prepareLayers make of a grouped layer
LayerEntry(l) ==
  [Digest |-> "sha256:" \o Sha256(TarGz(Hash(l))),
   MergeRating |-> l.MergeRating,
   TarHash |-> "sha256:" \o Sha256(Tar(Hash(l)))]

\* the loop of prepareLayers over the grouped layers ls with the layer map
\* lc and the bucket st: layerFromCache, else uploadHashLayer and cacheLayer
RECURSIVE layerEntries(_, _, _, _)
layerEntries(ls, lc, st, acc) ==
  IF ls = <<>> THEN [entries |-> acc, lcache |-> lc, store |-> st]
  ELSE LET l == Head(ls)
           key == Hash(l)
           path == "builds/" \o key
           e == LayerEntry(l)
       IN  IF key \in DOMAIN lc
           THEN layerEntries(Tail(ls), lc, st, Append(acc, lc[key]))
           ELSE IF path \in DOMAIN st /\ ValidJSON(st[path])
           THEN layerEntries(Tail(ls), Put(lc, key, ParseEntry(st[path])), st,
                             Append(acc, ParseEntry(st[path])))
           ELSE layerEntries(Tail(ls), Put(lc, key, e),
                             Put(Put(st, "layers/" \o Sha256(TarGz(key)), TarGz(key)),
                                 path, EntryJSON(e)),
                             Append(acc, e))

\* Group is called on the input
CallGroup ==
  /\ Len(grouped) < MaxCalls
  /\ \E out \in GroupResults[[refs |-> refs, pop |-> pop, budget |-> budget]] :
       grouped' = Append(grouped, out)
  /\ UNCHANGED <<pvars, uvars, backend, pkgSource, store, mdir, lcache, rq, tasks, faults,
                 refs, pop, budget, built>>

\* BuildImage without a fingerprint: prepareLayers, the symlink layer, the
\* manifest and the upload of the config
BuildImage ==
  /\ Len(built) < MaxBuilds
  /\ \E g \in ImageLayers[[refs |-> refs, pop |-> pop]] :
       LET ls == layerEntries(g, lcache, store, <<>>)
           slkey == SymlinkKey(refs)
           sl == [Digest |-> "sha256:" \o Sha256("gz:" \o slkey),
                  MergeRating |-> 0,
                  TarHash |-> "sha256:" \o slkey]
           mf == Manifest(amd64.imageArch, Append(ls.entries, sl))
       IN  /\ lcache' = Put(ls.lcache, slkey, sl)
           /\ store' = Put(Put(Put(ls.store, "layers/" \o Sha256("gz:" \o slkey),
                                   "gz:" \o slkey),
                               "builds/" \o slkey, EntryJSON(sl)),
                           "layers/" \o mf.c.SHA256, mf.c.Config)
           /\ built' = Append(built, [grouped |-> g,
                                      layers |-> ManifestLayers(mf.m),
                                      diff_ids |-> DiffIDs(mf.c.Config)])
  /\ UNCHANGED <<pvars, uvars, backend, pkgSource, mdir, rq, tasks, faults,
                 refs, pop, budget, grouped>>

LayerInit ==
  /\ \E in \in Inputs : refs = in.refs /\ pop = in.pop /\ budget = in.budget
  /\ grouped = <<>>
  /\ built = <<>>
  /\ backend = "filesystem"
  /\ pkgSource = [type |-> "path", arg |-> "/var/nixpkgs"]
  /\ store = <<>>
  /\ mdir = <<>>
  /\ lcache = <<>>
  /\ rq = [r \in Reqs |-> NewRequest]
  /\ tasks = {}
  /\ faults = 0
  /\ ec = NewErrorCache(ErrorCacheSize)
  /\ adders = [p \in 1..NumAdders |-> NoAdder]
  /\ call = NoCall
  /\ added = <<>>
  /\ passed = {}
  /\ NoPopcount

LayerNext ==
  \/ CallGroup
  \/ BuildImage
  \/ Restart

LayerSpec == LayerInit /\ [][LayerNext]_vars

(***************************************************************************)
(* The error ring under concurrent callers: AddError looks the key up      *)
(* under the read lock, releases it, and inserts under the write lock.     *)
(***************************************************************************)
\* AddError, lines 33-41, called with a key up to the one after the last key
\* of the map
AddErrorExists(p) ==
  /\ adders[p].pc = "idle"
  /\ LET filled == Len(ringDo(ec, 0))
         inserts == IF filled < ErrorCacheSize THEN filled ELSE filled + ec.current
         used == {i \in DOMAIN ErrorKeys : ErrorKeys[i] \in DOMAIN ec.errors}
         busy == {q \in DOMAIN adders : adders[q].pc = "insert"}
     IN  /\ inserts + Cardinality(busy) < MaxAdds
         /\ busy # {} => adders[p].overlaps < MaxOverlaps
         /\ \E i \in DOMAIN ErrorKeys :
              /\ \E j \in used \cup {0} : i <= j + 1
              /\ adders' = [adders EXCEPT ![p] =
                              IF exists(ec, ErrorKeys[i]) THEN @
                              ELSE [pc |-> "insert", key |-> ErrorKeys[i],
                                    overlaps |-> IF busy = {} THEN @.overlaps
                                                 ELSE @.overlaps + 1]]
  /\ UNCHANGED <<pvars, ec, call, added, passed, gvars, backend, pkgSource, store, mdir, lcache, rq,
                 tasks, faults>>

\* AddError, lines 43-59
AddErrorInsert(p) ==
  /\ adders[p].pc = "insert"
  /\ ec' = insert(ec, adders[p].key, "build failed")
  /\ adders' = [adders EXCEPT ![p] = [NoAdder EXCEPT !.overlaps = adders[p].overlaps]]
  /\ added' = LET all == Append(added, [Key |-> adders[p].key, Error |-> "build failed"])
              IN  IF Len(all) <= ErrorCacheSize THEN all ELSE Tail(all)
  /\ call' = NoCall
  /\ UNCHANGED <<pvars, passed, gvars, backend, pkgSource, store, mdir, lcache, rq, tasks, faults>>

\* GetAllErrors is called between two insertions
GetAllErrorsCall ==
  /\ call' = [op |-> "GetAllErrors", result |-> GetAllErrors(ec)]
  /\ UNCHANGED <<pvars, ec, adders, added, passed, gvars, backend, pkgSource, store, mdir, lcache, rq,
                 tasks, faults>>

ErrorNext ==
  \/ \E p \in DOMAIN adders : AddErrorExists(p)
  \/ \E p \in DOMAIN adders : AddErrorInsert(p)
  \/ GetAllErrorsCall

\* the ring NewErrorCache(15) of main, in a server of one backend
ErrorInit == Init /\ backend = "filesystem"

ErrorSpec == ErrorInit /\ [][ErrorNext]_vars

(***************************************************************************)
(* Operations followed on their own: a request to ServeHTTP, a call of     *)
(* ImageFromName, and Persist and Move on one pair of keys of a backend    *)
(* that holds one blob.  ServeHTTP and ImageFromName change nothing, so   *)
(* nothing is followed after them.                                         *)
(***************************************************************************)
ServeHTTPCall ==
  /\ call.op \in {"none", "Persist", "Move"}
  /\ \E uri \in RequestURIs :
       \E res \in ServeHTTP(backend, store, uri) :
         /\ Fault(res.faults)
         /\ call' = [op |-> "ServeHTTP", uri |-> uri, resp |-> res.resp]
  /\ UNCHANGED <<pvars, ec, adders, added, passed, gvars, backend, pkgSource, store, mdir, lcache, rq, tasks>>

ImageFromNameCall ==
  /\ call.op = "none"
  /\ \E name \in ImageNames :
       call' = [op |-> "ImageFromName", name |-> name,
                image |-> ImageFromName(name, "latest")]
  /\ UNCHANGED <<pvars, ec, adders, added, passed, gvars, backend, pkgSource, store, mdir, lcache, rq, tasks, faults>>

\* Persist of a layer under its staging key
PersistCall ==
  /\ call.op \in {"none", "Persist", "Move"}
  /\ \E c \in {"tar1", "tar2"} :
       \E res \in Persist(backend, store, "staging/layer", c, TRUE) :
         /\ Fault(res.faults)
         /\ store' = res.st
         /\ call' = [op |-> "Persist", path |-> "staging/layer", ok |-> res.ok]
  /\ UNCHANGED <<pvars, ec, adders, added, passed, gvars, backend, pkgSource, mdir, lcache, rq, tasks>>

\* Move of the layer from its staging key to its final key
MoveCall ==
  /\ call.op \in {"none", "Persist", "Move"}
  /\ \E res \in Move(backend, store, "staging/layer", "layers/" \o OtherDigest) :
       /\ Fault(res.faults)
       /\ store' = res.st
       /\ call' = [op |-> "Move", old |-> "staging/layer",
                   new |-> "layers/" \o OtherDigest, ok |-> res.ok,
                   found |-> "staging/layer" \in DOMAIN store]
  /\ UNCHANGED <<pvars, ec, adders, added, passed, gvars, backend, pkgSource, mdir, lcache, rq, tasks>>

\* the image names of two requests whose fingerprints are compared
KeyNames == {"hello", "arm64/hello", "git/hub", "hub/git", "github"}

\* BuildImage, first lines, for two requests: the fingerprint of each image
\* under the configured package source
CacheKeyCall ==
  /\ call.op = "none"
  /\ \E a, b \in KeyNames, ta, tb \in Tags :
       LET ia == ImageFromName(a, ta)
           ib == ImageFromName(b, tb)
       IN  call' = [op |-> "CacheKey", images |-> <<ia, ib>>,
                    keys |-> <<CacheKey(pkgSource, ia.Packages, ia.Tag),
                               CacheKey(pkgSource, ib.Packages, ib.Tag)>>]
  /\ UNCHANGED <<pvars, ec, adders, added, passed, gvars, backend, pkgSource, store, mdir, lcache, rq, tasks, faults>>

CallInit ==
  /\ backend \in Backends
  /\ pkgSource = GitSource
  /\ store = ("layers/" \o BlobDigest :> "blob")
  /\ mdir = <<>>
  /\ lcache = <<>>
  /\ rq = [r \in Reqs |-> NewRequest]
  /\ tasks = {}
  /\ faults = 0
  /\ refs = NoGraph
  /\ pop = <<>>
  /\ budget = LayerBudget
  /\ grouped = <<>>
  /\ built = <<>>
  /\ ec = NewErrorCache(ErrorCacheSize)
  /\ adders = [p \in 1..NumAdders |-> NoAdder]
  /\ call = NoCall
  /\ added = <<>>
  /\ passed = {}
  /\ NoPopcount

CallNext ==
  \/ ServeHTTPCall
  \/ ImageFromNameCall
  \/ PersistCall
  \/ MoveCall
  \/ CacheKeyCall

CallSpec == CallInit /\ [][CallNext]_vars

(***************************************************************************)
(* popcount: main from the start of the goroutines on.                     *)
(***************************************************************************)
\* downloader: the next item of the queue, or the end of the loop when the
\* closed queue is empty; fetchNarInfo returns the narinfo or an error, and
\* on an error the downloader goes on with the next item
DownloaderReceive(w) ==
  /\ workers[w].pc = "range"
  /\ IF downloadQueue = <<>>
     THEN /\ workers' = [workers EXCEPT ![w].pc = "signal"]
          /\ UNCHANGED <<downloadQueue, fetched>>
     ELSE /\ downloadQueue' = Tail(downloadQueue)
          /\ \E ok \in BOOLEAN :
               IF ok
               THEN /\ workers' = [workers EXCEPT ![w] = [pc |-> "send",
                                                           item |-> Head(downloadQueue)]]
                    /\ fetched' = fetched \cup {Head(downloadQueue)}
               ELSE UNCHANGED <<workers, fetched>>
  /\ UNCHANGED <<narinfos, downloaders, count, loops, counts>>
  /\ UNCHANGED <<backend, pkgSource, store, mdir, lcache, rq, tasks, faults, gvars, uvars>>

\* downloader: narinfos <- ni; a send on a closed channel panics
DownloaderSend(w) ==
  /\ workers[w].pc = "send"
  /\ IF narinfos.closes > 0
     THEN /\ narinfos' = [narinfos EXCEPT !.late = @ + 1]
          /\ workers' = [workers EXCEPT ![w].pc = "panic"]
     ELSE /\ Len(narinfos.buf) < NarinfosCap
          /\ narinfos' = [narinfos EXCEPT !.buf = Append(@, workers[w].item)]
          /\ workers' = [workers EXCEPT ![w] = [pc |-> "range", item |-> 0]]
  /\ UNCHANGED <<downloadQueue, downloaders, count, loops, counts, fetched>>
  /\ UNCHANGED <<backend, pkgSource, store, mdir, lcache, rq, tasks, faults, gvars, uvars>>

\* downloader: downloaders <- struct{}{}, its last statement; the channel
\* has room for one element of every downloader
DownloaderExit(w) ==
  /\ workers[w].pc = "signal"
  /\ IF downloaders.closes > 0
     THEN /\ downloaders' = [downloaders EXCEPT !.late = @ + 1]
          /\ workers' = [workers EXCEPT ![w].pc = "panic"]
     ELSE /\ downloaders' = [downloaders EXCEPT !.buf = Append(@, w)]
          /\ workers' = [workers EXCEPT ![w].pc = "exited"]
  /\ UNCHANGED <<downloadQueue, narinfos, count, loops, counts, fetched>>
  /\ UNCHANGED <<backend, pkgSource, store, mdir, lcache, rq, tasks, faults, gvars, uvars>>

\* a finaliser that closes when the first downloader has ended
FinaliserReceiveFirst ==
  /\ loops.finaliser = "range"
  /\ downloaders.buf # <<>>
  /\ downloaders' = [downloaders EXCEPT !.buf = Tail(@)]
  /\ count' = count - 1
  /\ loops' = [loops EXCEPT !.finaliser = "closeDownloaders"]
  /\ UNCHANGED <<downloadQueue, narinfos, workers, counts, fetched>>
  /\ UNCHANGED <<backend, pkgSource, store, mdir, lcache, rq, tasks, faults, gvars, uvars>>

\* finaliser: an element of downloaders is received and count decremented
FinaliserReceive ==
  /\ loops.finaliser = "range"
  /\ downloaders.buf # <<>>
  /\ downloaders' = [downloaders EXCEPT !.buf = Tail(@)]
  /\ count' = count - 1
  /\ loops' = [loops EXCEPT !.finaliser = IF count - 1 = 0 THEN "closeDownloaders"
                                          ELSE "range"]
  /\ UNCHANGED <<downloadQueue, narinfos, workers, counts, fetched>>
  /\ UNCHANGED <<backend, pkgSource, store, mdir, lcache, rq, tasks, faults, gvars, uvars>>

\* finaliser at count 0: close(downloaders)
FinaliserCloseDownloaders ==
  /\ loops.finaliser = "closeDownloaders"
  /\ downloaders' = [downloaders EXCEPT !.closes = @ + 1]
  /\ loops' = [loops EXCEPT !.finaliser = "closeNarinfos"]
  /\ UNCHANGED <<downloadQueue, narinfos, workers, count, counts, fetched>>
  /\ UNCHANGED <<backend, pkgSource, store, mdir, lcache, rq, tasks, faults, gvars, uvars>>

\* finaliser: close(narinfos) and break
FinaliserCloseNarinfos ==
  /\ loops.finaliser = "closeNarinfos"
  /\ narinfos' = [narinfos EXCEPT !.closes = @ + 1]
  /\ loops' = [loops EXCEPT !.finaliser = "done"]
  /\ UNCHANGED <<downloadQueue, downloaders, workers, count, counts, fetched>>
  /\ UNCHANGED <<backend, pkgSource, store, mdir, lcache, rq, tasks, faults, gvars, uvars>>

\* main, for ni := range narinfos: the next narinfo is counted; the loop
\* ends when the channel is closed and empty
MainReceive ==
  /\ loops.main = "range"
  /\ IF narinfos.buf # <<>>
     THEN /\ counts' = Append(counts, Head(narinfos.buf))
          /\ narinfos' = [narinfos EXCEPT !.buf = Tail(@)]
          /\ UNCHANGED loops
     ELSE /\ narinfos.closes > 0
          /\ loops' = [loops EXCEPT !.main = "done"]
          /\ UNCHANGED <<counts, narinfos>>
  /\ UNCHANGED <<downloadQueue, downloaders, workers, count, fetched>>
  /\ UNCHANGED <<backend, pkgSource, store, mdir, lcache, rq, tasks, faults, gvars, uvars>>

\* main has filled and closed the queue, made the channels and started the
\* downloaders and the finaliser
PopInit ==
  /\ \E n \in 0..MaxPaths : downloadQueue = [i \in 1..n |-> i]
  /\ narinfos = NewChan
  /\ downloaders = NewChan
  /\ workers = [w \in 1..NumDownloaders |-> [pc |-> "range", item |-> 0]]
  /\ count = NumDownloaders
  /\ loops = [finaliser |-> "range", main |-> "range"]
  /\ counts = <<>>
  /\ fetched = {}
  /\ backend = "filesystem"
  /\ pkgSource = GitSource
  /\ store = <<>>
  /\ mdir = <<>>
  /\ lcache = <<>>
  /\ rq = [r \in Reqs |-> NewRequest]
  /\ tasks = {}
  /\ faults = 0
  /\ refs = NoGraph
  /\ pop = <<>>
  /\ budget = LayerBudget
  /\ grouped = <<>>
  /\ built = <<>>
  /\ ec = NewErrorCache(ErrorCacheSize)
  /\ adders = [p \in 1..NumAdders |-> NoAdder]
  /\ call = NoCall
  /\ added = <<>>
  /\ passed = {}

Downloader(w) == DownloaderReceive(w) \/ DownloaderSend(w) \/ DownloaderExit(w)

Finaliser == FinaliserReceive \/ FinaliserCloseDownloaders \/ FinaliserCloseNarinfos

PopNext ==
  \/ \E w \in 1..NumDownloaders : Downloader(w)
  \/ Finaliser
  \/ MainReceive

PopSpec == PopInit /\ [][PopNext]_vars

\* every goroutine that can take a step is scheduled
FairPopSpec ==
  /\ PopSpec
  /\ \A w \in 1..NumDownloaders : WF_vars(Downloader(w))
  /\ WF_vars(Finaliser)
  /\ WF_vars(MainReceive)

(***************************************************************************)
(* Properties.                                                             *)
(***************************************************************************)
InFlight(r) == rq[r].pc \notin {"idle", "done"}

Answered(r) == rq[r].pc = "done" /\ rq[r].resp.status = 200

\* the tags and package sources that are pinned to a full commit hash
CommitTags == {t \in Tags : commitRegex(t)}

PinnedChannels == {src \in PkgSources : src.type = "channel" /\ commitRegex(src.arg)}

\* the names whose leading segment selects the arm64 architecture
Arm64Names == {n \in Names : Head(Split(n)) = "arm64"}

\* C1: of the requests that are in flight at the same time with the same
\* non-empty fingerprint, at most one has invoked the resolver.
C1_SingleFlight ==
  \A r1, r2 \in Reqs :
    (r1 # r2 /\ InFlight(r1) /\ InFlight(r2)
       /\ rq[r1].key # "" /\ rq[r1].key = rq[r2].key)
    => ~(rq[r1].invoked /\ rq[r2].invoked)

\* C2: when a manifest is returned, every layer digest and the config digest
\* it references is in the bucket under layers/<digest>.
C2_BlobsPresent == \A r \in Reqs : Answered(r) => ~rq[r].absent

\* C3: a step that writes a manifest to the response leaves the bucket with
\* these bytes under layers/<sha256 of the manifest>; a request whose persist
\* failed is answered without manifest bytes.
C3_PersistBeforeResponse ==
  [][\A r \in Reqs :
       (rq[r].pc = "writeManifest" /\ rq'[r].pc = "done")
       => IF rq'[r].resp.status = 200
          THEN /\ ManifestPath(rq'[r].resp.body) \in DOMAIN store'
               /\ store'[ManifestPath(rq'[r].resp.body)] = rq'[r].resp.body
          ELSE rq'[r].resp.body = ""]_vars

\* C3 happens: one request got its manifest, another was refused because the
\* persist failed.
C3_Witness ==
  \E r1, r2 \in Reqs :
    /\ Answered(r1) /\ rq[r1].resp.body # ""
    /\ rq[r2].pc = "done" /\ rq[r2].resp.code = "MANIFEST_UPLOAD"

\* C4: no two requests have an upload of the same layer key in progress.
C4_OneUploadPerKey ==
  \A r1, r2 \in Reqs :
    (r1 # r2 /\ rq[r1].pc = "move" /\ rq[r2].pc = "move"
       /\ rq[r1].stage = "layer" /\ rq[r2].stage = "layer")
    => UploadOf(rq[r1]).key # UploadOf(rq[r2]).key

\* C5: every object at layers/<h> has content whose SHA-256 is h.
C5_FinalBlobsComplete ==
  \A p \in DOMAIN store :
    HasPrefix(p, "layers/") => p = "layers/" \o Sha256(store[p])

\* C6: the entry of a layer whose move did not happen is in no tier of the
\* layer cache.
C6_NoDescriptorAfterFailure ==
  \A r \in Reqs :
    rq[r].badDesc # ""
    => /\ rq[r].badDesc \notin DOMAIN lcache
       /\ "builds/" \o rq[r].badDesc \notin DOMAIN store

\* C7: a request that arrives after a request with the same non-empty
\* fingerprint was answered with a manifest does not invoke the resolver.
C7_LaterRequestsHit == \A r \in Reqs : rq[r].later => ~rq[r].invoked

\* C8: the fingerprint of a request is non-empty only for a git source with
\* a full commit hash as tag or a channel source pinned to one, and a request
\* with an empty fingerprint neither reads nor writes the manifest cache.
C8_Cacheability ==
  /\ \A r \in Reqs :
       /\ rq[r].key # "" =>
            \/ pkgSource.type = "git" /\ rq[r].tag \in CommitTags
            \/ pkgSource \in PinnedChannels
       /\ (rq[r].pc # "idle" /\ rq[r].key = "") => ~rq[r].mc /\ ~rq[r].hit
  /\ "" \notin DOMAIN mdir
  /\ "manifests/" \notin DOMAIN store
  /\ \A t \in tasks : t.type \in {"cacheManifest", "localCacheManifest"} => t.key # ""

\* C8 happens: a manifest was built without a fingerprint and another with
\* one, which was looked up in and handed to the manifest cache.
C8_Witness ==
  \E r1, r2 \in Reqs :
    /\ Answered(r1) /\ rq[r1].key = "" /\ rq[r1].resp.body # ""
    /\ Answered(r2) /\ rq[r2].key # "" /\ rq[r2].mc

\* C9: a manifest returned for a name that selects arm64 declares arm64, one
\* returned for any other name declares amd64.
C9_Architecture ==
  \A r \in Reqs :
    (Answered(r) /\ rq[r].resp.body # "")
    => DeclaredArch(rq[r].resp.body) =
         IF rq[r].name \in Arm64Names THEN "arm64" ELSE "amd64"

\* C10: when the resolver reports not_found the request is answered 404
\* MANIFEST_UNKNOWN with the list of the missing packages, and the step
\* writes nothing to the bucket or the caches and starts no goroutine.
C10_NotFound ==
  [][\A r \in Reqs :
       (rq[r].pc = "prepareImage" /\ rq'[r].pc = "done" /\ faults' = faults
          /\ ImageResults[rq[r].name, rq[r].tag].Error = "not_found")
       => /\ rq'[r].resp.status = 404
          /\ rq'[r].resp.code = "MANIFEST_UNKNOWN"
          /\ rq'[r].resp.message = "Could not find Nix packages: [nope]"
          /\ ~rq'[r].wrote
          /\ store' = store /\ mdir' = mdir /\ lcache' = lcache /\ tasks' = tasks]_vars

\* C10 happens: a request for a package the package set does not have was
\* answered.
C10_Witness ==
  \E r \in Reqs : rq[r].pc = "done" /\ rq[r].name = "nope" /\ rq[r].resp.status = 404

CachedManifests(st) == {p \in DOMAIN st : HasPrefix(p, "manifests/")}

C12_FailuresAreUnknown ==
  \A r \in Reqs :
    (rq[r].pc = "done" /\ rq[r].resp.status \notin {200, 404})
    => (rq[r].resp.status = 500 /\ rq[r].resp.code = "UNKNOWN")

\* the store paths the top-level paths of a runtime graph reach through
\* references
RECURSIVE ReachedPaths(_, _)
ReachedPaths(rg, S) ==
  LET N == S \cup UNION {{rg.Graph[i].Refs[k] : k \in DOMAIN rg.Graph[i].Refs} :
                         i \in {j \in DOMAIN rg.Graph : rg.Graph[j].Path \in S}}
  IN  IF N = S THEN S ELSE ReachedPaths(rg, N)

ClosureOfRoots(rg) == ReachedPaths(rg, {rg.References[k] : k \in DOMAIN rg.References})

\* the store paths of all layers of a result of Group, layer after layer
RECURSIVE AllContents(_)
AllContents(layers) ==
  IF layers = <<>> THEN <<>> ELSE Head(layers).Contents \o AllContents(Tail(layers))

\* the subtrees below the root of the dominator tree of the input
TopLevel == DominatedBy(Dominators(buildGraph(refs, pop)), 0)

\* C13: the union of the contents of the layers Group returns is the set of
\* the store paths reachable from the top-level paths.
C13_Union ==
  \A k \in DOMAIN grouped :
    {AllContents(grouped[k])[i] : i \in DOMAIN AllContents(grouped[k])}
      = ClosureOfRoots(refs)

\* C13 happens: Group merged layers of a graph in which a top-level path
\* refers to another path.
C13_Witness ==
  \E k \in DOMAIN grouped :
    /\ Cardinality(TopLevel) > budget
    /\ Len(refs.References) < Len(refs.Graph)
    /\ Len(grouped[k]) = budget

\* C14: no store path is twice among the contents of the layers Group
\* returns, within one layer or in two.
C14_Disjoint ==
  \A k \in DOMAIN grouped :
    LET all == AllContents(grouped[k])
    IN  \A i, j \in DOMAIN all : i # j => all[i] # all[j]

\* C14 happens: Group returned several layers for a graph in which two paths
\* refer to the same third.
C14_Witness ==
  \E k \in DOMAIN grouped :
    /\ Len(grouped[k]) >= 2
    /\ \E i, j, d \in DOMAIN refs.Graph :
         /\ i # j /\ i # d /\ j # d
         /\ \E x \in DOMAIN refs.Graph[i].Refs : refs.Graph[i].Refs[x] = refs.Graph[d].Path
         /\ \E x \in DOMAIN refs.Graph[j].Refs : refs.Graph[j].Refs[x] = refs.Graph[d].Path

\* C15: Group returns a result for every input, and every result has at
\* least one and at most budget layers.
C15_Budget ==
  /\ budget >= 1
  /\ GroupResults[[refs |-> refs, pop |-> pop, budget |-> budget]] # {}
  /\ \A k \in DOMAIN grouped : Len(grouped[k]) >= 1 /\ Len(grouped[k]) <= budget

\* C15 happens: Group was called with a budget of two layers on a graph with
\* three subtrees below the root.
C15_Witness ==
  /\ Len(grouped) >= 1
  /\ budget = 2
  /\ Cardinality(TopLevel) = 3

\* C16: the calls of Group on the same input return the same result.
C16_Deterministic ==
  \A i, j \in DOMAIN grouped : grouped[i] = grouped[j]

\* the nodes of the input with popularity >= 1000 or closure size > 100 MB
BigOrPopularNodes ==
  {i \in DOMAIN refs.Graph :
     \/ refs.Graph[i].Size > 100
     \/ /\ DOTID(refs.Graph[i].Path) \in DOMAIN pop
        /\ pop[DOTID(refs.Graph[i].Path)] >= 1000}

\* C17: every node with popularity >= 1000 or closure size > 100 MB is
\* immediately dominated by the root, and in every build its store path is in
\* a layer that has no store path outside its closure.
C17_Promoted ==
  \A i \in BigOrPopularNodes :
    /\ <<i, 0>> \in Dominators(buildGraph(refs, pop))
    /\ \A k \in DOMAIN built :
         \E x \in DOMAIN built[k].grouped :
           LET c == built[k].grouped[x].Contents
           IN  /\ \E y \in DOMAIN c : c[y] = refs.Graph[i].Path
               /\ \A y \in DOMAIN c : c[y] \in ReachedPaths(refs, {refs.Graph[i].Path})

\* C17 happens: an image was built whose graph has a big or popular path
\* that is not a top-level path.
C17_Witness ==
  /\ Len(built) >= 1
  /\ \E i \in BigOrPopularNodes :
       \A k \in DOMAIN refs.References : refs.References[k] # refs.Graph[i].Path

\* the merge rating and the hash of the uncompressed tar of the layer of a
\* build b that has the digest d; the symlink layer has no merge rating
RatingOf(b, d) ==
  LET ls == {x \in DOMAIN b.grouped : LayerEntry(b.grouped[x]).Digest = d}
  IN  IF ls = {} THEN 0 ELSE b.grouped[CHOOSE x \in ls : TRUE].MergeRating

TarHashOf(b, d) ==
  LET ls == {x \in DOMAIN b.grouped : LayerEntry(b.grouped[x]).Digest = d}
  IN  IF ls = {} THEN "sha256:" \o SymlinkKey(refs)
      ELSE LayerEntry(b.grouped[CHOOSE x \in ls : TRUE]).TarHash

\* C18: in every manifest built the layers are in non-increasing order of
\* merge rating, and diff_ids has as many elements as layers, the i-th the
\* hash of the uncompressed tar of the i-th layer.
C18_ManifestOrder ==
  \A k \in DOMAIN built :
    LET b == built[k]
    IN  /\ \A i \in 1..(Len(b.layers) - 1) :
             RatingOf(b, b.layers[i]) >= RatingOf(b, b.layers[i + 1])
        /\ Len(b.diff_ids) = Len(b.layers)
        /\ \A i \in DOMAIN b.layers : b.diff_ids[i] = TarHashOf(b, b.layers[i])

\* C19: every manifest built has at most 94 layers, the symlink layer
\* included.
C19_LayerCount ==
  \A k \in DOMAIN built : Len(built[k].layers) <= LayerBudget

\* C20: in the state in which a call cacheManifest(key, m) ends,
\* manifestFromCache(key) finds m: in the local cache when it has the key,
\* in the bucket under manifests/<key> otherwise.
C20_CacheRoundTrip ==
  [][\A t \in tasks :
       (t.type = "cacheManifest" /\ t.open /\ t \notin tasks')
       => IF t.key \in DOMAIN mdir'
          THEN mdir'[t.key] = t.m
          ELSE /\ "manifests/" \o t.key \in DOMAIN store'
               /\ store'["manifests/" \o t.key] = t.m]_vars

IsDigest(d) == Len(d) = 64 /\ AllOf(d, HexDigits)

\* C22: a request for a blob by a digest the backend does not hold is
\* answered with 404; a request for a digest it holds is answered with 200
\* and the bytes persisted by the filesystem backend, with a 303 redirect by
\* an object store.
C22_BlobServe ==
  (call.op = "ServeHTTP" /\ Len(blobRegex(call.uri)) = 4
     /\ IsDigest(blobRegex(call.uri)[4]))
  => LET key == "layers/" \o blobRegex(call.uri)[4]
     IN  IF key \notin DOMAIN store THEN call.resp.status = 404
         ELSE IF backend = "filesystem"
         THEN call.resp.status = 200 /\ call.resp.body = store[key]
         ELSE call.resp.status = 303 /\ call.resp.location # ""

\* C23: a request whose URI is not /v2/, not a manifest-by-tag path and not
\* a by-digest path with a digest of 64 lowercase hexadecimal characters is
\* answered with 404 by ServeHTTP itself: no handler builds an image or
\* turns to the storage backend.
C23_OtherRoutes404 ==
  (/\ call.op = "ServeHTTP"
   /\ call.uri # "/v2/"
   /\ Len(manifestRegex(call.uri)) # 3
   /\ ~(Len(blobRegex(call.uri)) = 4 /\ IsDigest(blobRegex(call.uri)[4])))
  => (call.resp.status = 404 /\ call.resp.handler = "" /\ ~call.resp.storage)

\* C24: the packages ImageFromName returns are in sorted order without
\* duplicates, and the name it returns is the segments of the name given,
\* sorted and joined by slashes.
C24_SortedDeduplicated ==
  call.op = "ImageFromName"
  => LET pk == call.image.Packages
     IN  /\ \A i \in 1..(Len(pk) - 1) : StrLess(pk[i], pk[i + 1])
         /\ call.image.Name = Join(SortStrings(Split(call.name)), "/")

\* C25: when arm64 is the first segment of the name, or the second after
\* shell, the architecture is arm64, arm64 is not among the packages and is
\* a segment of the name returned; for every other name the architecture is
\* amd64.
C25_Arm64Meta ==
  call.op = "ImageFromName"
  => LET segs == Split(call.name)
         pk == call.image.Packages
         meta == \/ segs[1] = "arm64"
                 \/ Len(segs) >= 2 /\ segs[1] = "shell" /\ segs[2] = "arm64"
     IN  IF meta
         THEN /\ call.image.Arch = arm
              /\ \A i \in DOMAIN pk : pk[i] # "arm64"
              /\ \E i \in DOMAIN Split(call.image.Name) : Split(call.image.Name)[i] = "arm64"
         ELSE call.image.Arch = amd64

\* C26: shell stands for bashInteractive, coreutils, moreutils and nano
\* when it is the first segment that is not arm64, and only then: a shell
\* in a later position is a package of its own.
C26_ShellFirstOnly ==
  call.op = "ImageFromName"
  => LET segs == Split(call.name)
         rest == IF segs[1] = "arm64" THEN Tail(segs) ELSE segs
         pk == {call.image.Packages[i] : i \in DOMAIN call.image.Packages}
         named == {rest[i] : i \in DOMAIN rest}
         later == {rest[i] : i \in 2..Len(rest)}
         tools == {"bashInteractive", "coreutils", "moreutils", "nano"}
     IN  /\ (rest # <<>> /\ rest[1] = "shell") => tools \subseteq pk
         /\ ~(rest # <<>> /\ rest[1] = "shell") => (tools \cap pk) \subseteq named
         /\ "shell" \in later => "shell" \in pk

\* C27: after a move of an object that returned without error, a move with
\* the same pair of keys leaves an object at the new key, with the bytes
\* the object there had.
C27_MoveRerun ==
  [][(/\ call.op = "Move" /\ call.ok /\ call.found
      /\ call'.op = "Move" /\ call'.old = call.old /\ call'.new = call.new)
     => /\ call.new \in DOMAIN store'
        /\ call.new \in DOMAIN store => store'[call.new] = store[call.new]]_vars

\* the layers of a list as a set, the contents of each as a set
LayerSet(layers) ==
  {[Paths |-> {layers[i].Contents[k] : k \in DOMAIN layers[i].Contents},
    MergeRating |-> layers[i].MergeRating] : i \in DOMAIN layers}

\* what is left of the layers S when two layers of the lowest ratings are
\* merged, the ratings added, as long as there are more than b layers
RECURSIVE LowestMerged(_, _)
LowestMerged(b, S) ==
  IF Cardinality(S) <= b THEN {S}
  ELSE UNION {LowestMerged(b, (S \ {p[1], p[2]})
                \cup {[Paths |-> p[1].Paths \cup p[2].Paths,
                       MergeRating |-> p[1].MergeRating + p[2].MergeRating]}) :
              p \in {q \in S \X S :
                       /\ q[1] # q[2]
                       /\ \A z \in S \ {q[1], q[2]} :
                            /\ z.MergeRating >= q[1].MergeRating
                            /\ z.MergeRating >= q[2].MergeRating}}

\* C28: the layers Group returns are those that remain when, as long as
\* there are more layers than the budget, the two layers of the lowest
\* merge ratings among all layers are merged into one with the sum of their
\* ratings.
C28_MergeLowest ==
  \A k \in DOMAIN grouped :
    LayerSet(grouped[k])
      \in LowestMerged(budget,
            LayerSet(CHOOSE s \in Group(refs, pop, Len(refs.Graph)) : TRUE))

\* C29: the store paths of every layer Group returns are in ascending
\* order.
C29_ContentsSorted ==
  \A k \in DOMAIN grouped :
    \A l \in DOMAIN grouped[k] :
      \A i \in 1..(Len(grouped[k][l].Contents) - 1) :
        StrLess(grouped[k][l].Contents[i], grouped[k][l].Contents[i + 1])

\* the key of the blob a layer entry refers to
BlobKey(e) == "layers/" \o SubSeq(e.Digest, Len("sha256:") + 1, Len(e.Digest))

\* C30: every layer entry in the local layer cache, and every layer entry
\* in the backend under builds/, refers to a blob the backend holds under
\* layers/.
C30_CachedLayersPresent ==
  /\ \A k \in DOMAIN lcache : BlobKey(lcache[k]) \in DOMAIN store
  /\ \A k \in DOMAIN store :
       (HasPrefix(k, "builds/") /\ ValidJSON(store[k]))
       => BlobKey(ParseEntry(store[k])) \in DOMAIN store

\* C31: a manifest the lookup takes from the bucket is taken after the local
\* cache gave none, and when the goroutine that a hit in the bucket has
\* started ends, the local cache holds the bytes of the hit under the
\* fingerprint of the request.
C31_TierOrder ==
  [][/\ \A r \in Reqs :
          (rq[r].pc = "idle" /\ rq'[r].tier = 2)
          => (rq'[r].key \notin DOMAIN mdir \/ faults' > faults)
     /\ \A t \in tasks \ tasks' :
          (/\ t.type = "localCacheManifest"
           /\ \E r \in Reqs : rq[r].tier = 2 /\ rq[r].key = t.key /\ rq[r].got = t.m)
          => (t.key \in DOMAIN mdir' /\ mdir'[t.key] = t.m)]_vars

C32_ReadFailureIsMiss ==
  \A r \in Reqs :
    /\ rq[r].tier # 0 => ValidJSON(rq[r].got)
    /\ (rq[r].pc = "done" /\ ~rq[r].hit /\ rq[r].resp.status = 500) => rq[r].invoked

\* C34: what GetAllErrors returns are the errors the ring holds, the one
\* added last first, however many errors have been added before.
C34_NewestFirst ==
  call.op = "GetAllErrors"
  => /\ Len(call.result) = Len(added)
     /\ \A i \in DOMAIN call.result : call.result[i] = added[Len(added) + 1 - i]

\* C34 happens: GetAllErrors is called after more errors have been added
\* than the ring has slots, under keys that differ.
C34_Witness ==
  /\ call.op = "GetAllErrors"
  /\ Len(call.result) = ErrorCacheSize
  /\ ec.current # 0
  /\ \A i, j \in DOMAIN call.result : i # j => call.result[i].Key # call.result[j].Key

\* C38: whatever the order of the steps of concurrent calls of AddError and
\* GetAllErrors, no two slots of the ring hold errors under the same key, and
\* the keys of the map are the keys of the errors in the slots.
C38_IndexMatchesRing ==
  LET held == ringDo(ec, 0)
  IN  /\ \A i, j \in DOMAIN held : i # j => held[i].Key # held[j].Key
      /\ DOMAIN ec.errors = {held[i].Key : i \in DOMAIN held}

\* C35: the bytes a lookup of the manifest cache returns, and the bytes the
\* local cache takes in under a key, are a manifest cacheManifest has been
\* called with for that key before, whole; also when the lookup happens
\* while cacheManifest is writing manifests/<key>.
C35_OnlyPassedManifests ==
  [][/\ \A r \in Reqs :
          (rq[r].pc = "idle" /\ rq'[r].tier # 0)
          => <<rq'[r].key, rq'[r].got>> \in passed
     /\ \A k \in DOMAIN mdir' :
          (k \notin DOMAIN mdir \/ mdir'[k] # mdir[k])
          => <<k, mdir'[k]>> \in passed]_vars

\* C36: two builds of an image from the same grouped layers yield the same
\* manifest, whether the entries of the layers were made by an upload or
\* taken from the layer map or from builds/<hash> in the bucket, and the
\* entry the layer map holds for a layer has the merge rating of the layer.
C36_SameManifestFromCache ==
  /\ \A j, k \in DOMAIN built :
       built[j].grouped = built[k].grouped
       => /\ built[j].layers = built[k].layers
          /\ built[j].diff_ids = built[k].diff_ids
  /\ \A k \in DOMAIN built : \A i \in DOMAIN built[k].grouped :
       Hash(built[k].grouped[i]) \in DOMAIN lcache
       => lcache[Hash(built[k].grouped[i])].MergeRating = built[k].grouped[i].MergeRating

\* C37: two requests whose sorted lists of packages differ do not get the
\* same fingerprint, unless it is the empty one.
C37_DistinctFingerprints ==
  call.op = "CacheKey"
  => \/ call.images[1].Packages = call.images[2].Packages
     \/ call.keys[1] = ""
     \/ call.keys[1] # call.keys[2]

====
